---------------------------- MODULE Spec2Model ----------------------------
(***************************************************************************)
(* Model of the Google Docs document-tree renderer of                      *)
(* gdocs/docs_tools.py: process_tabs_recursively (the tab walker) and      *)
(* process_structural_elements (the structural element renderer).          *)
(*                                                                         *)
(* JSON-like values of the API payload are tagged records:                 *)
(*   Null            Python None                                           *)
(*   D(f)            a dict, f a function from key strings to values       *)
(*   L(s)            a list, s a sequence of values                        *)
(*   S(s)            a str, s a sequence of chunks                         *)
(* A Python str is a sequence of chunks; a chunk is one whitespace         *)
(* character (" ", "\n") or a piece of text without whitespace at its      *)
(* ends.  Concatenation is \o, str.strip() drops the whitespace chunks at  *)
(* both ends.  The inputs hold, at every position, a value of the type     *)
(* the code expects there, or None, or nothing (the key is absent).        *)
(*                                                                         *)
(* A call either returns a value or raises: Ok(v) / Raise.                 *)
(***************************************************************************)
EXTENDS Integers, Sequences, FiniteSets, TLC

VARIABLES call, elements, tabs, level, target_tab_id, pc, processed_lines,
          stack, visited,
          file_metadata, doc_data, requests, spreadsheet, result,
          message_ids, message_format, answers, chunk_start, results,
          retrieved_messages, errors,
          range_name, user_google_email, values, value_input_option, clear_values,
          action, name, label_id, label_list_visibility, message_list_visibility,
          current_label,
          environ,
          payload, part_queue, body_data

\* the frames of the running loops and the nodes visited so far
walk_vars == <<stack, visited>>

\* the API responses a tool read, the API requests it made, the text it returns
tool_vars == <<file_metadata, doc_data, requests, spreadsheet, result>>

\* get_gmail_messages_content_batch: its arguments, what the API answers to
\* the request for each position of message_ids, and its local variables
batch_vars == <<message_ids, message_format, answers, chunk_start, results,
                retrieved_messages, errors>>

\* the arguments of modify_sheet_values
modify_vars == <<range_name, user_google_email, values, value_input_option, clear_values>>

\* the arguments of manage_gmail_label and the label it fetched
label_vars == <<action, name, label_id, label_list_visibility, message_list_visibility,
                current_label>>

\* _extract_message_body: its argument and local variables
body_vars == <<payload, part_queue, body_data>>

\* the state of the tools of gmail_tools.py, of modify_sheet_values and of
\* the environment credentials
more_vars == <<batch_vars, modify_vars, label_vars, environ, body_vars>>

vars == <<call, elements, tabs, level, target_tab_id, pc, processed_lines,
          walk_vars, tool_vars, more_vars>>

RECURSIVE process_structural_elements(_)
RECURSIVE process_tabs_recursively(_, _, _)
RECURSIVE element_lines(_)
RECURSIVE tab_lines(_, _, _, _)

---------------------------------------------------------------------------
(* Bounds of the inputs *)

MaxText == 1
MaxRuns == 2
MaxCells == 2
MaxRows == 2
MaxElems == 2
MaxTabs == 2
MaxLevel == 2

---------------------------------------------------------------------------
(* Python values *)

Null == [t |-> "null"]
D(f) == [t |-> "dict", d |-> f]
L(s) == [t |-> "list", l |-> s]
S(s) == [t |-> "str", s |-> s]

EmptyDict == D([k \in {} |-> Null])
EmptyList == L(<<>>)

Ok(v) == [err |-> FALSE, v |-> v]
Raise == [err |-> TRUE, v |-> <<>>]

\* bool(x) for None, dict, list, str
Truthy(x) ==
  CASE x.t = "null" -> FALSE
    [] x.t = "dict" -> DOMAIN x.d # {}
    [] x.t = "list" -> x.l # <<>>
    [] x.t = "str" -> x.s # <<>>

\* k in x, for a dict x
Has(x, k) == k \in DOMAIN x.d

\* x.get(k, default), for a dict x
Get(x, k, default) == IF k \in DOMAIN x.d THEN x.d[k] ELSE default

IsSpace(c) == c \in {" ", "\n"}

RECURSIVE lstrip(_)
lstrip(s) == IF s # <<>> /\ IsSpace(Head(s)) THEN lstrip(Tail(s)) ELSE s

RECURSIVE rstrip(_)
rstrip(s) ==
  IF s # <<>> /\ IsSpace(s[Len(s)]) THEN rstrip(SubSeq(s, 1, Len(s) - 1)) ELSE s

\* str.strip()
strip(s) == rstrip(lstrip(s))

\* sep.join(strs)
RECURSIVE join(_, _)
join(sep, strs) ==
  IF strs = <<>> THEN <<>>
  ELSE IF Len(strs) = 1 THEN strs[1]
  ELSE strs[1] \o sep \o join(sep, Tail(strs))

\* any(strs): some string is non-empty
any(strs) == \E i \in 1..Len(strs) : strs[i] # <<>>

Digit == <<"0", "1", "2", "3", "4", "5", "6", "7", "8", "9">>

\* str(n) for n >= 0, as in an f-string
RECURSIVE str(_)
str(n) == IF n < 10 THEN <<Digit[n + 1]>> ELSE str(n \div 10) \o <<Digit[(n % 10) + 1]>>

\* Mutant of indent_of: one space per level
RECURSIVE indent_of_single(_)
indent_of_single(lvl) == IF lvl <= 0 THEN <<>> ELSE <<" ">> \o indent_of_single(lvl - 1)

\* "  " * level
RECURSIVE indent_of(_)
indent_of(lvl) == IF lvl <= 0 THEN <<>> ELSE <<" ", " ">> \o indent_of(lvl - 1)

---------------------------------------------------------------------------
(* process_structural_elements *)

TABLE_START == <<"\n", "--- TABLE ---", "\n">>
TABLE_END == <<"--- END TABLE ---", "\n">>
SECTION_BREAK == <<"\n", "--- SECTION BREAK ---", "\n">>
TABLE_OF_CONTENTS == <<"\n", "--- TABLE OF CONTENTS ---", "\n">>
PAGE_BREAK == <<"\n", "--- PAGE BREAK ---", "\n">>
HORIZONTAL_RULE == <<"\n", "--- HORIZONTAL RULE ---", "\n">>
FOOTER_START == <<"\n", "--- FOOTER ---", "\n">>
FOOTER_END == <<"--- END FOOTER ---", "\n">>
HEADER_START == <<"\n", "--- HEADER ---", "\n">>
HEADER_END == <<"--- END HEADER ---", "\n">>
CELL_SEP == <<" ", "|", " ">>

\* the loop over para_elements: current_line_text after the runs pes
RECURSIVE para_text(_, _)
para_text(pes, current_line_text) ==
  IF pes = <<>> THEN Ok(current_line_text)
  ELSE LET pe == Head(pes) IN
    IF pe.t # "dict" THEN Raise
    ELSE LET text_run == Get(pe, "textRun", EmptyDict) IN
      IF Truthy(text_run) /\ Has(text_run, "content")
      THEN IF text_run.d["content"].t # "str" THEN Raise
           ELSE para_text(Tail(pes), current_line_text \o text_run.d["content"].s)
      ELSE para_text(Tail(pes), current_line_text)

\* Mutant of paragraph_lines: the line is emitted trimmed
paragraph_lines_trimmed(element) ==
  LET paragraph == Get(element, "paragraph", EmptyDict) IN
  IF paragraph.t # "dict" THEN Raise
  ELSE LET para_elements == Get(paragraph, "elements", EmptyList) IN
    IF para_elements.t # "list" THEN Raise
    ELSE LET r == para_text(para_elements.l, <<>>) IN
      IF r.err THEN Raise
      ELSE IF strip(r.v) # <<>> THEN Ok(<<strip(r.v)>>) ELSE Ok(<<>>)

\* the paragraph branch
paragraph_lines(element) ==
  LET paragraph == Get(element, "paragraph", EmptyDict) IN
  IF paragraph.t # "dict" THEN Raise
  ELSE LET para_elements == Get(paragraph, "elements", EmptyList) IN
    IF para_elements.t # "list" THEN Raise
    ELSE LET r == para_text(para_elements.l, <<>>) IN
      IF r.err THEN Raise
      ELSE IF strip(r.v) # <<>> THEN Ok(<<r.v>>) ELSE Ok(<<>>)

\* the loop over row_cells: cell_texts after the cells
RECURSIVE row_cell_texts(_, _)
row_cell_texts(cells, cell_texts) ==
  IF cells = <<>> THEN Ok(cell_texts)
  ELSE LET cell == Head(cells) IN
    IF cell.t # "dict" THEN Raise
    ELSE LET cell_content == Get(cell, "content", EmptyList)
             r == process_structural_elements(cell_content) IN
      IF r.err THEN Raise
      ELSE row_cell_texts(Tail(cells), Append(cell_texts, strip(join(<<>>, r.v))))

\* Mutant of table_rows_lines: a row is emitted only if all its cells have text
RECURSIVE table_rows_lines_all(_, _)
table_rows_lines_all(rows, lines) ==
  IF rows = <<>> THEN Ok(lines)
  ELSE LET row == Head(rows) IN
    IF row.t # "dict" THEN Raise
    ELSE LET row_cells == Get(row, "tableCells", EmptyList) IN
      IF row_cells.t # "list" THEN Raise
      ELSE LET r == row_cell_texts(row_cells.l, <<>>) IN
        IF r.err THEN Raise
        ELSE IF \A j \in 1..Len(r.v) : r.v[j] # <<>>
             THEN table_rows_lines_all(Tail(rows), Append(lines, join(CELL_SEP, r.v) \o <<"\n">>))
             ELSE table_rows_lines_all(Tail(rows), lines)

\* the loop over table_rows: processed_lines after the rows
RECURSIVE table_rows_lines(_, _)
table_rows_lines(rows, lines) ==
  IF rows = <<>> THEN Ok(lines)
  ELSE LET row == Head(rows) IN
    IF row.t # "dict" THEN Raise
    ELSE LET row_cells == Get(row, "tableCells", EmptyList) IN
      IF row_cells.t # "list" THEN Raise
      ELSE LET r == row_cell_texts(row_cells.l, <<>>) IN
        IF r.err THEN Raise
        ELSE IF any(r.v)
             THEN table_rows_lines(Tail(rows), Append(lines, join(CELL_SEP, r.v) \o <<"\n">>))
             ELSE table_rows_lines(Tail(rows), lines)

\* the table branch
table_lines(element) ==
  LET table == Get(element, "table", EmptyDict) IN
  IF table.t # "dict" THEN Raise
  ELSE LET table_rows == Get(table, "tableRows", EmptyList) IN
    IF table_rows.t # "list" THEN Raise
    ELSE LET r == table_rows_lines(table_rows.l, <<TABLE_START>>) IN
      IF r.err THEN Raise ELSE Ok(Append(r.v, TABLE_END))

\* Mutant of bracket_lines: no markers around empty or missing content
bracket_lines_nonempty(element, key, start, end) ==
  LET holder == Get(element, key, EmptyDict) IN
  IF holder.t # "dict" THEN Raise
  ELSE LET r == process_structural_elements(Get(holder, "content", EmptyList)) IN
    IF r.err THEN Raise
    ELSE IF r.v = <<>> THEN Ok(<<>>) ELSE Ok(<<start>> \o r.v \o <<end>>)

\* the footerContent and headerContent branches
bracket_lines(element, key, start, end) ==
  LET holder == Get(element, key, EmptyDict) IN
  IF holder.t # "dict" THEN Raise
  ELSE LET r == process_structural_elements(Get(holder, "content", EmptyList)) IN
    IF r.err THEN Raise ELSE Ok(<<start>> \o r.v \o <<end>>)

footer_lines(element) == bracket_lines(element, "footerContent", FOOTER_START, FOOTER_END)

header_lines(element) == bracket_lines(element, "headerContent", HEADER_START, HEADER_END)

\* Mutant of element_kind: the table key is tested before the paragraph key
element_kind_table_first(element) ==
  IF Has(element, "table") THEN "table"
  ELSE IF Has(element, "paragraph") THEN "paragraph"
  ELSE IF Has(element, "sectionBreak") THEN "sectionBreak"
  ELSE IF Has(element, "tableOfContents") THEN "tableOfContents"
  ELSE IF Has(element, "pageBreak") THEN "pageBreak"
  ELSE IF Has(element, "horizontalRule") THEN "horizontalRule"
  ELSE IF Has(element, "footerContent") THEN "footerContent"
  ELSE IF Has(element, "headerContent") THEN "headerContent"
  ELSE "none"

\* the if/elif chain of the loop body: the kind of an element (a dict)
element_kind(element) ==
  IF Has(element, "paragraph") THEN "paragraph"
  ELSE IF Has(element, "table") THEN "table"
  ELSE IF Has(element, "sectionBreak") THEN "sectionBreak"
  ELSE IF Has(element, "tableOfContents") THEN "tableOfContents"
  ELSE IF Has(element, "pageBreak") THEN "pageBreak"
  ELSE IF Has(element, "horizontalRule") THEN "horizontalRule"
  ELSE IF Has(element, "footerContent") THEN "footerContent"
  ELSE IF Has(element, "headerContent") THEN "headerContent"
  ELSE "none"

\* Mutant of element_lines: an element of unknown kind appends a marker line
element_lines_unknown_marked(element) ==
  IF element.t # "dict" THEN Raise
  ELSE LET kind == element_kind(element) IN
    CASE kind = "paragraph" -> paragraph_lines(element)
      [] kind = "table" -> table_lines(element)
      [] kind = "sectionBreak" -> Ok(<<SECTION_BREAK>>)
      [] kind = "tableOfContents" -> Ok(<<TABLE_OF_CONTENTS>>)
      [] kind = "pageBreak" -> Ok(<<PAGE_BREAK>>)
      [] kind = "horizontalRule" -> Ok(<<HORIZONTAL_RULE>>)
      [] kind = "footerContent" -> footer_lines(element)
      [] kind = "headerContent" -> header_lines(element)
      [] OTHER -> Ok(<<<<"\n", "--- UNKNOWN ---", "\n">>>>)

\* Mutant of element_lines: a page break whose value is None emits nothing
element_lines_empty_break_skipped(element) ==
  IF element.t # "dict" THEN Raise
  ELSE LET kind == element_kind(element) IN
    CASE kind = "paragraph" -> paragraph_lines(element)
      [] kind = "table" -> table_lines(element)
      [] kind = "sectionBreak" -> Ok(<<SECTION_BREAK>>)
      [] kind = "tableOfContents" -> Ok(<<TABLE_OF_CONTENTS>>)
      [] kind = "pageBreak" ->
           IF Truthy(element.d["pageBreak"]) THEN Ok(<<PAGE_BREAK>>) ELSE Ok(<<>>)
      [] kind = "horizontalRule" -> Ok(<<HORIZONTAL_RULE>>)
      [] kind = "footerContent" -> footer_lines(element)
      [] kind = "headerContent" -> header_lines(element)
      [] OTHER -> Ok(<<>>)

\* the loop body: the lines one element appends
element_lines(element) ==
  IF element.t # "dict" THEN Raise
  ELSE LET kind == element_kind(element) IN
    CASE kind = "paragraph" -> paragraph_lines(element)
      [] kind = "table" -> table_lines(element)
      [] kind = "sectionBreak" -> Ok(<<SECTION_BREAK>>)
      [] kind = "tableOfContents" -> Ok(<<TABLE_OF_CONTENTS>>)
      [] kind = "pageBreak" -> Ok(<<PAGE_BREAK>>)
      [] kind = "horizontalRule" -> Ok(<<HORIZONTAL_RULE>>)
      [] kind = "footerContent" -> footer_lines(element)
      [] kind = "headerContent" -> header_lines(element)
      [] OTHER -> Ok(<<>>)

\* the loop over elements: processed_lines after the elements els
RECURSIVE elements_loop(_, _)
elements_loop(els, lines) ==
  IF els = <<>> THEN Ok(lines)
  ELSE LET r == element_lines(Head(els)) IN
    IF r.err THEN Raise ELSE elements_loop(Tail(els), lines \o r.v)

process_structural_elements(els) ==
  IF els.t # "list" THEN Raise ELSE elements_loop(els.l, <<>>)

---------------------------------------------------------------------------
(* process_tabs_recursively *)

\* a value interpolated in an f-string
fmt(x) == IF x.t = "str" THEN x.s ELSE <<"None">>

TAB_MARKER(indent, n, tab_title, tab_id) ==
  <<"\n">> \o indent \o <<"===", " ", "TAB", " ">> \o str(n) \o <<":", " ">>
    \o fmt(tab_title) \o <<" ", "(ID:", " ">> \o fmt(tab_id) \o <<")", " ", "===", "\n">>

\* Mutant of EMPTY_TAB_CONTENT: the placeholder without the indent
EMPTY_TAB_CONTENT_unindented(indent) == <<"[EMPTY TAB CONTENT]", "\n">>

EMPTY_TAB_CONTENT(indent) == indent \o <<"[EMPTY TAB CONTENT]", "\n">>
NO_BODY_CONTENT(indent) == indent \o <<"[NO BODY CONTENT]", "\n">>
NO_DOCUMENT_TAB_CONTENT(indent) == indent \o <<"[NO DOCUMENT TAB CONTENT]", "\n">>
CHILD_TABS_START(indent) == indent \o <<"--- CHILD TABS ---", "\n">>
CHILD_TABS_END(indent) == indent \o <<"--- END CHILD TABS ---", "\n">>
NESTED_TABS_START(indent) == indent \o <<"--- NESTED TABS ---", "\n">>
NESTED_TABS_END(indent) == indent \o <<"--- END NESTED TABS ---", "\n">>

\* Mutant of default_title: the title counts from 0, as the index does
default_title_zero_based(i) == S(<<"Tab", " ">> \o str(i))

\* f'Tab {i+1}', i the 0-based index
default_title(i) == S(<<"Tab", " ">> \o str(i + 1))

default_id == S(<<"unknown">>)

\* the re-indentation loop: every line prefixed with indent
indent_lines(indent, lines) == [j \in 1..Len(lines) |-> indent \o lines[j]]

\* Mutant of body_lines: a documentTab that is present counts, also when empty
body_lines_present(tab, lvl) ==
  LET indent == indent_of(lvl)
      document_tab == Get(tab, "documentTab", EmptyDict) IN
  IF Has(tab, "documentTab") /\ document_tab.t = "dict"
  THEN LET tab_body == Get(document_tab, "body", EmptyDict) IN
    IF Truthy(tab_body)
    THEN LET tab_content == Get(tab_body, "content", EmptyList) IN
      IF tab_content.t # "list" THEN Raise
      ELSE IF Truthy(tab_content)
      THEN LET r == process_structural_elements(tab_content) IN
        IF r.err THEN Raise ELSE Ok(indent_lines(indent, r.v))
      ELSE Ok(<<EMPTY_TAB_CONTENT(indent)>>)
    ELSE Ok(<<NO_BODY_CONTENT(indent)>>)
  ELSE Ok(<<NO_DOCUMENT_TAB_CONTENT(indent)>>)

\* the document content of one tab
body_lines(tab, lvl) ==
  LET indent == indent_of(lvl)
      document_tab == Get(tab, "documentTab", EmptyDict) IN
  IF Truthy(document_tab)
  THEN LET tab_body == Get(document_tab, "body", EmptyDict) IN
    IF Truthy(tab_body)
    THEN LET tab_content == Get(tab_body, "content", EmptyList) IN
      IF tab_content.t # "list" THEN Raise
      ELSE IF Truthy(tab_content)
      THEN LET r == process_structural_elements(tab_content) IN
        IF r.err THEN Raise ELSE Ok(indent_lines(indent, r.v))
      ELSE Ok(<<EMPTY_TAB_CONTENT(indent)>>)
    ELSE Ok(<<NO_BODY_CONTENT(indent)>>)
  ELSE Ok(<<NO_DOCUMENT_TAB_CONTENT(indent)>>)

\* one nesting relation of a rendered tab, bracketed by its markers
relation_lines(tab, key, lvl, target, start, end) ==
  LET sub == Get(tab, key, EmptyList) IN
  IF Truthy(sub)
  THEN LET r == process_tabs_recursively(sub, lvl + 1, target) IN
    IF r.err THEN Raise ELSE Ok(<<start>> \o r.v \o <<end>>)
  ELSE Ok(<<>>)

child_tabs_lines(tab, lvl, target) ==
  relation_lines(tab, "childTabs", lvl, target,
                 CHILD_TABS_START(indent_of(lvl)), CHILD_TABS_END(indent_of(lvl)))

\* Mutant of nested_tabs_lines: the tabs relation is walked only without childTabs
nested_tabs_lines_exclusive(tab, lvl, target) ==
  IF Truthy(Get(tab, "childTabs", EmptyList)) THEN Ok(<<>>)
  ELSE relation_lines(tab, "tabs", lvl, target,
                      NESTED_TABS_START(indent_of(lvl)), NESTED_TABS_END(indent_of(lvl)))

nested_tabs_lines(tab, lvl, target) ==
  relation_lines(tab, "tabs", lvl, target,
                 NESTED_TABS_START(indent_of(lvl)), NESTED_TABS_END(indent_of(lvl)))

\* one nesting relation of a tab that does not match target_tab_id
skipped_relation_lines(tab, key, lvl, target) ==
  LET sub == Get(tab, key, EmptyList) IN
  IF Truthy(sub) THEN process_tabs_recursively(sub, lvl + 1, target) ELSE Ok(<<>>)

\* Mutant of skipped_tab_lines: only childTabs is searched for the target
skipped_tab_lines_children_only(tab, lvl, target) ==
  skipped_relation_lines(tab, "childTabs", lvl, target)

\* a tab that does not match target_tab_id: only its relations are searched
skipped_tab_lines(tab, lvl, target) ==
  LET c == skipped_relation_lines(tab, "childTabs", lvl, target) IN
  IF c.err THEN Raise
  ELSE LET n == skipped_relation_lines(tab, "tabs", lvl, target) IN
    IF n.err THEN Raise ELSE Ok(c.v \o n.v)

\* Mutant of rendered_tab_lines: the nested tabs come before the child tabs
rendered_tab_lines_nested_first(tab, i, lvl, target, tab_title, tab_id) ==
  LET marker == TAB_MARKER(indent_of(lvl), i + 1, tab_title, tab_id)
      b == body_lines(tab, lvl) IN
  IF b.err THEN Raise
  ELSE LET c == child_tabs_lines(tab, lvl, target) IN
    IF c.err THEN Raise
    ELSE LET n == nested_tabs_lines(tab, lvl, target) IN
      IF n.err THEN Raise ELSE Ok(<<marker>> \o b.v \o n.v \o c.v)

\* a tab that is rendered: marker, body, child tabs, nested tabs
rendered_tab_lines(tab, i, lvl, target, tab_title, tab_id) ==
  LET marker == TAB_MARKER(indent_of(lvl), i + 1, tab_title, tab_id)
      b == body_lines(tab, lvl) IN
  IF b.err THEN Raise
  ELSE LET c == child_tabs_lines(tab, lvl, target) IN
    IF c.err THEN Raise
    ELSE LET n == nested_tabs_lines(tab, lvl, target) IN
      IF n.err THEN Raise ELSE Ok(<<marker>> \o b.v \o c.v \o n.v)

\* the loop body: the lines the tab at 0-based index i appends
tab_lines(tab, i, lvl, target) ==
  IF tab.t # "dict" THEN Raise
  ELSE LET tab_properties == Get(tab, "tabProperties", EmptyDict) IN
    IF tab_properties.t # "dict" THEN Raise
    ELSE LET tab_title == Get(tab_properties, "title", default_title(i))
             tab_id == Get(tab_properties, "tabId", default_id) IN
      IF Truthy(target) /\ tab_id # target
      THEN skipped_tab_lines(tab, lvl, target)
      ELSE rendered_tab_lines(tab, i, lvl, target, tab_title, tab_id)

\* the loop over enumerate(tabs): processed_lines after the tabs from index i on
RECURSIVE tabs_loop(_, _, _, _, _)
tabs_loop(ts, i, lvl, target, lines) ==
  IF i >= Len(ts) THEN Ok(lines)
  ELSE LET r == tab_lines(ts[i + 1], i, lvl, target) IN
    IF r.err THEN Raise ELSE tabs_loop(ts, i + 1, lvl, target, lines \o r.v)

\* Mutant of process_tabs_recursively: an empty tab list yields a placeholder
process_tabs_recursively_placeholder(ts, lvl, target) ==
  IF ts.t # "list" THEN Raise
  ELSE IF ts.l = <<>> THEN Ok(<<indent_of(lvl) \o <<"[NO TABS]", "\n">>>>)
  ELSE tabs_loop(ts.l, 0, lvl, target, <<>>)

process_tabs_recursively(ts, lvl, target) ==
  IF ts.t # "list" THEN Raise ELSE tabs_loop(ts.l, 0, lvl, target, <<>>)

---------------------------------------------------------------------------
(* The inputs: bounded sets of document trees *)

\* the sequences over set of length at most n
RECURSIVE SeqsUpTo(_, _)
SeqsUpTo(set, n) ==
  IF n = 0 THEN {<<>>}
  ELSE LET shorter == SeqsUpTo(set, n - 1) IN
    shorter \cup {Append(q, x) : q \in {r \in shorter : Len(r) = n - 1}, x \in set}

NoKeys == [k \in {} |-> Null]

\* the dicts with key k bound to a value of vs, or without it
Opt(k, vs) == {NoKeys} \cup {k :> v : v \in vs}

Chars == {"a", "b", " "}
Texts == SeqsUpTo(Chars, MaxText)

Run(text) == D([textRun |-> D([content |-> S(text)])])
Para(text) == D([paragraph |-> D([elements |-> L(<<Run(text)>>)])])
Unknown == D([inlineObject |-> EmptyDict])
PageBreak == D([pageBreak |-> EmptyDict])
SectionBreak == D([sectionBreak |-> EmptyDict])
Cell(content) == D([content |-> L(content)])
Row(cells) == D([tableCells |-> L(cells)])
Table(rows) == D([table |-> D([tableRows |-> L(rows)])])
Footer(content) == D([footerContent |-> D([content |-> L(content)])])
Header(content) == D([headerContent |-> D([content |-> L(content)])])

\* paragraph elements: with and without a text run, with and without content
Runs ==
  {EmptyDict, D([textRun |-> Null]), D([textRun |-> EmptyDict]),
   D([textRun |-> D([textStyle |-> EmptyDict])]), D([textRun |-> D([content |-> Null])])}
    \cup {Run(text) : text \in Texts}

ParagraphElements ==
  {D([paragraph |-> Null]), D([paragraph |-> EmptyDict]),
   D([paragraph |-> D([elements |-> Null])])}
    \cup {D([paragraph |-> D([elements |-> L(rs)])]) : rs \in SeqsUpTo(Runs, MaxRuns)}

\* table cells of the table grid: text that survives trimming, text that does not
GridCells == {Cell(<<Para(<<"a", " ">>)>>), Cell(<<Para(<<" ">>)>>)}

GridTables ==
  {Table(rows) : rows \in SeqsUpTo({Row(cells) : cells \in SeqsUpTo(GridCells, MaxCells)}, MaxRows)}

InnerTable == Table(<<Row(<<Cell(<<Para(<<"a">>)>>), Cell(<<>>)>>)>>)

\* table cells of one row: several elements, a nested table, no content, malformed
RowCells ==
  {Cell(<<Para(<<" ", "b">>), Para(<<"a", " ">>)>>), Cell(<<Para(<<"b">>)>>), Cell(<<PageBreak>>),
   Cell(<<InnerTable>>), Cell(<<>>), EmptyDict, D([content |-> Null]), Null}

RowTables == {Table(<<Row(cells)>>) : cells \in SeqsUpTo(RowCells, MaxCells)}

MalformedTables ==
  {D([table |-> Null]), D([table |-> EmptyDict]), D([table |-> D([tableRows |-> Null])]),
   Table(<<Null>>), Table(<<EmptyDict>>), Table(<<D([tableCells |-> Null])>>),
   Table(<<EmptyDict, Row(<<Cell(<<Para(<<"a">>)>>)>>)>>)}

\* the content of headers, footers and general element lists
ListElements ==
  {Para(<<"a">>), Para(<<"b">>), Para(<<" ">>), Unknown, EmptyDict, SectionBreak,
   D([tableOfContents |-> Null]), D([horizontalRule |-> EmptyDict]),
   Table(<<Row(<<Cell(<<Para(<<"a">>)>>), Cell(<<Para(<<"b">>)>>)>>), Row(<<Cell(<<>>), Cell(<<>>)>>)>>),
   Footer(<<Para(<<"b">>)>>), Header(<<>>),
   D([paragraph |-> D([elements |-> L(<<Run(<<" ">>)>>)]), table |-> D([tableRows |-> EmptyList])]),
   D([paragraph |-> Null])}

ElementLists == {L(els) : els \in SeqsUpTo(ListElements, MaxElems)}

BracketElements ==
  {D(k :> v) : k \in {"footerContent", "headerContent"},
               v \in {Null, EmptyDict, D([content |-> Null])}
                       \cup {D([content |-> L(els)]) :
                               els \in SeqsUpTo({Para(<<"a">>), Unknown, PageBreak}, MaxElems)}}

\* the recognized keys, in the order of the if/elif chain
KindKeys ==
  <<"paragraph", "table", "sectionBreak", "tableOfContents", "pageBreak", "horizontalRule",
    "footerContent", "headerContent">>

\* two payloads per key: one that renders lines, one that renders none (or fewer)
Payloads(k) ==
  CASE k = "paragraph" -> {D([elements |-> L(<<Run(<<"a">>)>>)]), D([elements |-> L(<<Run(<<" ">>)>>)])}
    [] k = "table" -> {D([tableRows |-> L(<<Row(<<Cell(<<Para(<<"b">>)>>)>>)>>)]), EmptyDict}
    [] k \in {"footerContent", "headerContent"} -> {D([content |-> L(<<Para(<<"b">>)>>)]), EmptyDict}
    [] OTHER -> {EmptyDict, Null}

\* elements carrying two recognized keys, and one carrying all of them
MultiKeyElements ==
  UNION {UNION {{D((KindKeys[i] :> v) @@ (KindKeys[j] :> w)) :
                   v \in Payloads(KindKeys[i]), w \in Payloads(KindKeys[j])} :
                j \in (i + 1)..8} :
         i \in 1..8}
    \cup {D([n \in {KindKeys[m] : m \in 1..8} |-> EmptyDict])}

\* the elements of the four marker kinds, with a None value and with a payload
MarkerElements ==
  {D(k :> v) : k \in {"sectionBreak", "tableOfContents", "pageBreak", "horizontalRule"},
               v \in {Null, D([textStyle |-> EmptyDict])}}

ElementInputs ==
  ElementLists
    \cup {L(<<e>>) : e \in ParagraphElements \cup GridTables \cup RowTables \cup MalformedTables
                            \cup BracketElements \cup MultiKeyElements}
    \cup {L(els) : els \in SeqsUpTo(MarkerElements, MaxElems)}
    \cup {Null}

\* the content of tab bodies
BodyContents ==
  {Null, EmptyList, L(<<Para(<<"a">>)>>), L(<<Para(<<" ">>)>>), L(<<D([paragraph |-> Null])>>),
   L(<<Para(<<"a">>), PageBreak,
       Table(<<Row(<<Cell(<<Para(<<"a">>)>>), Cell(<<Para(<<"b">>)>>)>>)>>)>>)}

TabPropertiesOpts ==
  Opt("tabProperties",
      {Null, EmptyDict, D([title |-> S(<<"Notes">>), tabId |-> S(<<"t1">>)]),
       D([tabId |-> S(<<"t2">>)]), D([title |-> S(<<"Notes">>)])})

DocumentTabOpts ==
  Opt("documentTab",
      {Null, EmptyDict, D([documentStyle |-> EmptyDict]), D([body |-> Null]),
       D([body |-> EmptyDict]), D([body |-> D([bodyStyle |-> EmptyDict])])}
        \cup {D([body |-> D([content |-> c])]) : c \in BodyContents})

\* tabs without child or nested tabs
LeafTabs == {D(p @@ d) : p \in TabPropertiesOpts, d \in DocumentTabOpts}

NotesTab ==
  D([tabProperties |-> D([title |-> S(<<"Notes">>), tabId |-> S(<<"t1">>)]),
     documentTab |-> D([body |-> D([content |-> L(<<Para(<<"a">>)>>)])])])

BareTab == D([tabProperties |-> D([tabId |-> S(<<"t2">>)]), documentTab |-> EmptyDict])

\* a tab without properties that holds a tab in each relation
GroupTab == D([childTabs |-> L(<<BareTab>>), tabs |-> L(<<NotesTab>>)])

SubTabs == {NotesTab, BareTab, GroupTab}

RelationOpts(k) ==
  Opt(k, {Null} \cup {L(ts) : ts \in SeqsUpTo(SubTabs, MaxTabs)})

\* tabs with every combination of the two nesting relations
ParentTabs ==
  {D([tabProperties |-> D([title |-> S(<<"Top">>), tabId |-> S(<<"t0">>)])] @@ d @@ c @@ n) :
     d \in Opt("documentTab", {D([body |-> D([content |-> L(<<Para(<<"b">>)>>)])])}),
     c \in RelationOpts("childTabs"), n \in RelationOpts("tabs")}

SiblingTabs == SubTabs \cup {EmptyDict, Null}

TabInputs ==
  {L(<<t>>) : t \in LeafTabs \cup ParentTabs}
    \cup {L(ts) : ts \in SeqsUpTo(SiblingTabs, MaxTabs)}

TargetIds == {S(<<"t1">>), S(<<"t2">>), S(<<"unknown">>), S(<<"t9">>)}

---------------------------------------------------------------------------
(* The calls *)

InitElements ==
  /\ call = "process_structural_elements"
  /\ elements \in ElementInputs
  /\ tabs = EmptyList
  /\ level = 0
  /\ target_tab_id = Null

InitTabs ==
  /\ call = "process_tabs_recursively"
  /\ elements = EmptyList
  /\ tabs \in TabInputs
  /\ \/ level \in 0..MaxLevel /\ target_tab_id = Null
     \/ level = 0 /\ target_tab_id \in TargetIds

\* no loop is followed frame by frame
NoWalk == stack = <<>> /\ visited = 0

\* no tool is running
NoDocTool ==
  /\ file_metadata = Null
  /\ doc_data = Null
  /\ requests = <<>>
  /\ spreadsheet = Null
  /\ result = <<>>

\* get_gmail_messages_content_batch is not running
NoBatch ==
  /\ message_ids = <<>>
  /\ message_format = "full"
  /\ answers = <<>>
  /\ chunk_start = 0
  /\ results = <<>>
  /\ retrieved_messages = <<>>
  /\ errors = <<>>

\* modify_sheet_values is not running
NoModify ==
  /\ range_name = <<>>
  /\ user_google_email = Null
  /\ values = Null
  /\ value_input_option = <<>>
  /\ clear_values = FALSE

\* manage_gmail_label is not running
NoLabel ==
  /\ action = ""
  /\ name = Null
  /\ label_id = Null
  /\ label_list_visibility = <<>>
  /\ message_list_visibility = <<>>
  /\ current_label = Null

\* the environment is not read
NoEnv == environ = <<>>

\* _extract_message_body is not running
NoBody == payload = Null /\ part_queue = <<>> /\ body_data = <<>>

NoTool == NoDocTool /\ NoBatch /\ NoModify /\ NoLabel /\ NoEnv /\ NoBody

Init ==
  /\ pc = "ready"
  /\ processed_lines = <<>>
  /\ (InitElements \/ InitTabs)
  /\ NoWalk
  /\ NoTool

Finish(r) ==
  /\ pc' = IF r.err THEN "raised" ELSE "returned"
  /\ processed_lines' = r.v
  /\ UNCHANGED <<more_vars, call, elements, tabs, level, target_tab_id, walk_vars, tool_vars>>

CallElements ==
  /\ pc = "ready"
  /\ call = "process_structural_elements"
  /\ Finish(process_structural_elements(elements))

CallTabs ==
  /\ pc = "ready"
  /\ call = "process_tabs_recursively"
  /\ Finish(process_tabs_recursively(tabs, level, target_tab_id))

Next == CallElements \/ CallTabs

Spec == Init /\ [][Next]_vars

---------------------------------------------------------------------------
(* The two functions frame by frame: every running loop of                 *)
(* process_tabs_recursively and process_structural_elements is a frame     *)
(* (the list it iterates and its position), every step visits the next     *)
(* node of the innermost loop, and a loop that is over returns to the one  *)
(* around it.  The lines are those of CallTabs and CallElements; here only *)
(* the control of the recursion is followed.                               *)

\* the loop that starts over items: tabs, elements, rows or cells
Frame(kind, items) == [kind |-> kind, items |-> items, i |-> 0]

\* the loop a guarded call starts: none when items is empty or None
started(kind, items) == IF Truthy(items) THEN <<Frame(kind, items)>> ELSE <<>>

\* tab_content of a tab, [] when the tab has no document body
tab_content_of(tab) ==
  LET document_tab == Get(tab, "documentTab", EmptyDict) IN
  IF ~Truthy(document_tab) THEN Ok(EmptyList)
  ELSE LET tab_body == Get(document_tab, "body", EmptyDict) IN
    IF ~Truthy(tab_body) THEN Ok(EmptyList)
    ELSE LET tab_content == Get(tab_body, "content", EmptyList) IN
      IF tab_content.t # "list" THEN Raise ELSE Ok(tab_content)

\* Mutant of walk_tab: the loop over the tabs relation is never started
walk_tab_children_only(tab, target) ==
  IF tab.t # "dict" THEN Raise
  ELSE LET tab_properties == Get(tab, "tabProperties", EmptyDict) IN
    IF tab_properties.t # "dict" THEN Raise
    ELSE LET shown == ~(Truthy(target) /\ Get(tab_properties, "tabId", default_id) # target)
             c == IF shown THEN tab_content_of(tab) ELSE Ok(EmptyList) IN
      IF c.err THEN Raise
      ELSE Ok(started("elements", c.v)
                \o started("tabs", Get(tab, "childTabs", EmptyList)))

\* the loops the visit of a tab starts, in the order they run: over the body
\* content (of a tab that is rendered), over childTabs, over tabs
walk_tab(tab, target) ==
  IF tab.t # "dict" THEN Raise
  ELSE LET tab_properties == Get(tab, "tabProperties", EmptyDict) IN
    IF tab_properties.t # "dict" THEN Raise
    ELSE LET shown == ~(Truthy(target) /\ Get(tab_properties, "tabId", default_id) # target)
             c == IF shown THEN tab_content_of(tab) ELSE Ok(EmptyList) IN
      IF c.err THEN Raise
      ELSE Ok(started("elements", c.v)
                \o started("tabs", Get(tab, "childTabs", EmptyList))
                \o started("tabs", Get(tab, "tabs", EmptyList)))

\* the loop the visit of an element starts: over the rows of a table, over
\* the content of a footer or header; a paragraph's runs are read in the visit
walk_element(element) ==
  IF element.t # "dict" THEN Raise
  ELSE LET kind == element_kind(element) IN
    CASE kind = "paragraph" -> IF paragraph_lines(element).err THEN Raise ELSE Ok(<<>>)
      [] kind = "table" ->
           LET table == Get(element, "table", EmptyDict) IN
           IF table.t # "dict" THEN Raise
           ELSE Ok(<<Frame("rows", Get(table, "tableRows", EmptyList))>>)
      [] kind \in {"footerContent", "headerContent"} ->
           LET holder == Get(element, kind, EmptyDict) IN
           IF holder.t # "dict" THEN Raise
           ELSE Ok(<<Frame("elements", Get(holder, "content", EmptyList))>>)
      [] OTHER -> Ok(<<>>)

\* the loop over the cells of a row
walk_row(row) ==
  IF row.t # "dict" THEN Raise
  ELSE Ok(<<Frame("cells", Get(row, "tableCells", EmptyList))>>)

\* the call on the content of a cell
walk_cell(cell) ==
  IF cell.t # "dict" THEN Raise
  ELSE Ok(<<Frame("elements", Get(cell, "content", EmptyList))>>)

walk_node(kind, node, target) ==
  CASE kind = "tabs" -> walk_tab(node, target)
    [] kind = "elements" -> walk_element(node)
    [] kind = "rows" -> walk_row(node)
    [] kind = "cells" -> walk_cell(node)

\* the innermost running loop, and the loops around it
Top == stack[Len(stack)]
Outer == SubSeq(stack, 1, Len(stack) - 1)

RECURSIVE Reverse(_)
Reverse(s) == IF s = <<>> THEN <<>> ELSE Reverse(Tail(s)) \o <<Head(s)>>

\* the tab lists that are walked frame by frame: single tabs with every
\* combination of the two relations, and lists of sibling tabs
WalkRelationOpts(k) == Opt(k, {Null, L(<<NotesTab>>), L(<<GroupTab, BareTab>>)})

WalkParentTabs ==
  {D([tabProperties |-> D([title |-> S(<<"Top">>), tabId |-> S(<<"t0">>)])] @@ d @@ c @@ n) :
     d \in Opt("documentTab", {D([body |-> D([content |-> L(<<Para(<<"b">>)>>)])])}),
     c \in WalkRelationOpts("childTabs"), n \in WalkRelationOpts("tabs")}

WalkTabInputs ==
  {L(<<t>>) : t \in LeafTabs \cup WalkParentTabs}
    \cup {L(ts) : ts \in SeqsUpTo(SiblingTabs, MaxTabs)}

\* the element lists that are walked frame by frame
WalkElementInputs ==
  ElementLists
    \cup {L(<<e>>) : e \in RowTables \cup MalformedTables \cup BracketElements}
    \cup {Null}

InitWalk ==
  /\ pc = "ready"
  /\ processed_lines = <<>>
  /\ visited = 0
  /\ NoTool
  /\ level = 0
  /\ \/ /\ call = "process_structural_elements"
        /\ elements \in WalkElementInputs
        /\ tabs = EmptyList
        /\ target_tab_id = Null
        /\ stack = <<Frame("elements", elements)>>
     \/ /\ call = "process_tabs_recursively"
        /\ elements = EmptyList
        /\ tabs \in WalkTabInputs
        /\ target_tab_id \in {Null} \cup TargetIds
        /\ stack = <<Frame("tabs", tabs)>>

\* a for loop over None
RaiseNotIterable ==
  /\ pc = "ready"
  /\ stack # <<>>
  /\ Top.items.t # "list"
  /\ pc' = "raised"
  /\ stack' = <<>>
  /\ UNCHANGED <<more_vars, call, elements, tabs, level, target_tab_id, processed_lines, visited, tool_vars>>

\* one iteration: the next node of the innermost loop is visited; the loops
\* it starts run before the loop goes on
Visit ==
  /\ pc = "ready"
  /\ stack # <<>>
  /\ Top.items.t = "list"
  /\ Top.i < Len(Top.items.l)
  /\ LET r == walk_node(Top.kind, Top.items.l[Top.i + 1], target_tab_id) IN
     /\ visited' = visited + 1
     /\ pc' = IF r.err THEN "raised" ELSE pc
     /\ stack' = IF r.err THEN <<>>
                 ELSE Append(Outer, [Top EXCEPT !.i = @ + 1]) \o Reverse(r.v)
  /\ UNCHANGED <<more_vars, call, elements, tabs, level, target_tab_id, processed_lines, tool_vars>>

\* the innermost loop is over: back to the loop around it, or the call returns
Return ==
  /\ pc = "ready"
  /\ stack # <<>>
  /\ Top.items.t = "list"
  /\ Top.i >= Len(Top.items.l)
  /\ stack' = Outer
  /\ pc' = IF Outer = <<>> THEN "returned" ELSE pc
  /\ UNCHANGED <<more_vars, call, elements, tabs, level, target_tab_id, processed_lines, visited, tool_vars>>

WalkNext == Visit \/ Return \/ RaiseNotIterable

\* the interpreter runs a call that can take a step
WalkSpec == InitWalk /\ [][WalkNext]_vars /\ WF_vars(WalkNext)

---------------------------------------------------------------------------
(* get_doc_content: the tool that reads a file of Drive.  Every action is  *)
(* one API call the tool awaits and the code that runs on its response.    *)
(* target_tab_id holds the tab_id argument, requests the API calls made.   *)

GOOGLE_DOC == <<"application/vnd.google-apps.document">>

DOCX == <<"application/vnd.openxmlformats-officedocument.wordprocessingml.document">>

\* the document_id argument
document_id == <<"doc1">>

\* the chunks a download takes at most
MaxChunks == 2

\* f'File: "{file_name}" (ID: {document_id}, Type: {mime_type})\nLink: {web_view_link}\n\n'
file_lines(file_name, mime_type, web_view_link) ==
  <<"File:", " ", "\"">> \o fmt(file_name) \o <<"\"", " ", "(ID:", " ">> \o document_id
    \o <<",", " ", "Type:", " ">> \o fmt(mime_type) \o <<")", "\n", "Link:", " ">>
    \o fmt(web_view_link) \o <<"\n", "\n">>

header_of(file_name, mime_type, web_view_link) ==
  file_lines(file_name, mime_type, web_view_link) \o <<"--- CONTENT ---", "\n">>

error_of(file_name, mime_type, web_view_link, message) ==
  file_lines(file_name, mime_type, web_view_link) \o <<"--- ERROR ---", "\n">> \o message

NO_TAB_FOUND(tab_id) == <<"No tab found with tab_id \"">> \o fmt(tab_id) \o <<"\".">>

NO_TABS(tab_id) ==
  <<"Specified tab_id \"">> \o fmt(tab_id) \o <<"\"", " ", "but document has no tabs.">>

NOT_SUPPORTED == <<"tab_id is not supported for non-Google Docs files.">>

\* the log lines of the loop over the top-level tabs: does one of them raise
log_tab_raises(tab) ==
  \/ tab.t # "dict"
  \/ /\ tab.t = "dict"
     /\ \/ Get(tab, "childTabs", EmptyList).t # "list"
        \/ Get(tab, "tabs", EmptyList).t # "list"
        \/ LET document_tab == Get(tab, "documentTab", EmptyDict) IN
           /\ Truthy(document_tab)
           /\ LET tab_body == Get(document_tab, "body", EmptyDict) IN
              /\ Truthy(tab_body)
              /\ LET tab_content == Get(tab_body, "content", EmptyList) IN
                 \/ tab_content.t # "list"
                 \/ /\ tab_content.t = "list"
                    /\ \E j \in 1..Len(tab_content.l) : j <= 3 /\ tab_content.l[j].t # "dict"

\* Mutant of body_text_of: the lines joined with a newline between them
body_text_of_lines(processed_text_lines) == join(<<"\n">>, processed_text_lines)

\* "".join(processed_text_lines)
body_text_of(processed_text_lines) == join(<<>>, processed_text_lines)

\* Mutant of found_tab_text: no check that the tab was found
found_tab_text_unchecked(found, file_name, mime_type, web_view_link, tab_id) ==
  header_of(file_name, mime_type, web_view_link) \o body_text_of(found)

\* the text returned for the lines found for tab_id
found_tab_text(found, file_name, mime_type, web_view_link, tab_id) ==
  IF found = <<>>
  THEN error_of(file_name, mime_type, web_view_link, NO_TAB_FOUND(tab_id))
  ELSE header_of(file_name, mime_type, web_view_link) \o body_text_of(found)

\* the code that runs on the response of documents.get, first part:
\* processed_text_lines
google_doc_lines(doc, tab_id) ==
  IF doc.t # "dict" THEN Raise
  ELSE LET doc_tabs == Get(doc, "tabs", EmptyList) IN
    IF doc_tabs.t # "list" THEN Raise
    ELSE IF \E i \in 1..Len(doc_tabs.l) : log_tab_raises(doc_tabs.l[i]) THEN Raise
    ELSE IF Truthy(doc_tabs)
    THEN IF Truthy(tab_id) THEN process_tabs_recursively(doc_tabs, 0, tab_id)
         ELSE process_tabs_recursively(doc_tabs, 0, Null)
    ELSE IF Truthy(tab_id) THEN Ok(<<>>)
    ELSE LET body == Get(doc, "body", EmptyDict) IN
      IF body.t # "dict" THEN Raise
      ELSE process_structural_elements(Get(body, "content", EmptyList))

\* second part: the text returned for processed_text_lines
google_doc_text(processed_text_lines, doc, tab_id, file_name, mime_type, web_view_link) ==
  IF Truthy(tab_id)
  THEN IF Truthy(Get(doc, "tabs", EmptyList))
       THEN found_tab_text(processed_text_lines, file_name, mime_type, web_view_link, tab_id)
       ELSE error_of(file_name, mime_type, web_view_link, NO_TABS(tab_id))
  ELSE header_of(file_name, mime_type, web_view_link) \o body_text_of(processed_text_lines)

\* body_text of a downloaded file: the text extract_office_xml_text found, or
\* the bytes decoded as UTF-8, or the note that they cannot be decoded
drive_file_text(file, mime_type) ==
  IF Truthy(file.office_text) THEN file.office_text.s
  ELSE IF file.decoded.t = "str" THEN file.decoded.s
  ELSE <<"[Binary or unsupported text encoding for mimeType '">> \o fmt(mime_type)
         \o <<"'", " ", "-", " ">> \o str(file.bytes) \o <<" ", "bytes]">>

\* the responses of files.get
FileMetadata ==
  {D([mimeType |-> S(GOOGLE_DOC), name |-> S(<<"Plan">>), webViewLink |-> S(<<"https://docs/doc1">>)]),
   D([mimeType |-> S(GOOGLE_DOC)]),
   D([mimeType |-> S(DOCX), name |-> S(<<"Plan.docx">>), webViewLink |-> S(<<"https://drive/doc1">>)]),
   EmptyDict}

\* the responses of documents.get: documents with tabs, without tabs, without
\* anything, and with None where a list or a dict is expected
DocTabLists ==
  {L(ts) : ts \in SeqsUpTo(SiblingTabs, MaxTabs)}
    \cup {L(<<t>>) : t \in WalkParentTabs}
    \cup {L(<<D([tabProperties |-> D([tabId |-> S(<<"t2">>)]), childTabs |-> Null])>>)}

Documents ==
  {D([tabs |-> ts]) : ts \in DocTabLists}
    \cup {D([body |-> D([content |-> els])]) : els \in ElementLists}
    \cup {EmptyDict, D([tabs |-> Null]), D([body |-> Null]),
          D([tabs |-> EmptyList, body |-> D([content |-> L(<<Para(<<"a", "\n">>), Para(<<"b", "\n">>)>>)])])}

\* the bytes of a downloaded file, as the code reads them
DownloadedFiles ==
  {[office_text |-> S(<<"docx", " ", "text">>), decoded |-> Null, bytes |-> 12],
   [office_text |-> Null, decoded |-> S(<<"plain", " ", "text">>), bytes |-> 10],
   [office_text |-> S(<<>>), decoded |-> S(<<>>), bytes |-> 0],
   [office_text |-> Null, decoded |-> Null, bytes |-> 3]}

\* the tab_id argument: None, the empty string, an id
TabIds == {Null, S(<<>>)} \cup TargetIds

mime_type_of(metadata) == Get(metadata, "mimeType", S(<<>>))
file_name_of(metadata) == Get(metadata, "name", S(<<"Unknown File">>))
web_view_link_of(metadata) == Get(metadata, "webViewLink", S(<<"#">>))

InitDoc ==
  /\ call = "get_doc_content"
  /\ pc = "ready"
  /\ target_tab_id \in TabIds
  /\ elements = EmptyList
  /\ tabs = EmptyList
  /\ level = 0
  /\ processed_lines = <<>>
  /\ NoWalk
  /\ NoTool

\* files.get answers; a native Google Doc is then read with documents.get,
\* another file is downloaded unless tab_id is given
FilesGet ==
  /\ pc = "ready"
  /\ requests' = Append(requests, "files.get")
  /\ \E metadata \in FileMetadata :
       /\ file_metadata' = metadata
       /\ IF mime_type_of(metadata).s = GOOGLE_DOC
          THEN pc' = "documents.get" /\ result' = result
          ELSE IF Truthy(target_tab_id)
          THEN /\ pc' = "returned"
               /\ result' = error_of(file_name_of(metadata), mime_type_of(metadata),
                                     web_view_link_of(metadata), NOT_SUPPORTED)
          ELSE pc' = "get_media" /\ result' = result
  /\ UNCHANGED <<more_vars, call, elements, tabs, level, target_tab_id, processed_lines, walk_vars,
                 doc_data, spreadsheet>>

\* documents.get answers: the document is rendered
DocumentsGet ==
  /\ pc = "documents.get"
  /\ requests' = Append(requests, "documents.get")
  /\ \E doc \in Documents :
       /\ doc_data' = doc
       /\ LET r == google_doc_lines(doc, target_tab_id) IN
          /\ pc' = IF r.err THEN "raised" ELSE "returned"
          /\ processed_lines' = r.v
       /\ result' = IF pc' = "raised" THEN result
                    ELSE google_doc_text(processed_lines', doc, target_tab_id,
                                         file_name_of(file_metadata), mime_type_of(file_metadata),
                                         web_view_link_of(file_metadata))
  /\ UNCHANGED <<more_vars, call, elements, tabs, level, target_tab_id, walk_vars, file_metadata, spreadsheet>>

\* downloader.next_chunk answers: the download goes on, or it is done and
\* the text of the file is returned behind the header
NextChunk ==
  /\ pc = "get_media"
  /\ requests' = Append(requests, "get_media.next_chunk")
  /\ \/ /\ Len(requests) < MaxChunks
        /\ pc' = pc
        /\ result' = result
     \/ \E file \in DownloadedFiles :
          /\ pc' = "returned"
          /\ result' = header_of(file_name_of(file_metadata), mime_type_of(file_metadata),
                                 web_view_link_of(file_metadata))
                         \o drive_file_text(file, mime_type_of(file_metadata))
  /\ UNCHANGED <<more_vars, call, elements, tabs, level, target_tab_id, processed_lines, walk_vars,
                 file_metadata, doc_data, spreadsheet>>

\* the API call the tool awaits fails
HttpError ==
  /\ pc \in {"ready", "documents.get", "get_media"}
  /\ requests' = Append(requests, IF pc = "ready" THEN "files.get"
                                  ELSE IF pc = "get_media" THEN "get_media.next_chunk" ELSE pc)
  /\ pc' = "raised"
  /\ UNCHANGED <<more_vars, call, elements, tabs, level, target_tab_id, processed_lines, walk_vars,
                 file_metadata, doc_data, spreadsheet, result>>

DocNext == FilesGet \/ DocumentsGet \/ NextChunk \/ HttpError

DocSpec == InitDoc /\ [][DocNext]_vars

---------------------------------------------------------------------------
(* get_spreadsheet_info of gsheets/sheets_tools.py: one spreadsheets.get    *)
(* call and the text built from its response.                              *)

\* a JSON number
N(n) == [t |-> "int", n |-> n]

\* the spreadsheet_id argument
spreadsheet_id == <<"sheet1">>

\* the sheets of a spreadsheet, at most
MaxSheets == 2

\* a value inside an f-string
format(x) ==
  CASE x.t = "str" -> x.s
    [] x.t = "int" -> str(x.n)
    [] OTHER -> <<"None">>

UNKNOWN == S(<<"Unknown">>)

\* the line of sheets_info for one sheet
sheet_info(sheet) ==
  IF sheet.t # "dict" THEN Raise
  ELSE LET sheet_props == Get(sheet, "properties", EmptyDict) IN
    IF sheet_props.t # "dict" THEN Raise
    ELSE LET sheet_name == Get(sheet_props, "title", UNKNOWN)
             sheet_id == Get(sheet_props, "sheetId", UNKNOWN)
             grid_props == Get(sheet_props, "gridProperties", EmptyDict) IN
      IF grid_props.t # "dict" THEN Raise
      ELSE LET rows == Get(grid_props, "rowCount", UNKNOWN)
               cols == Get(grid_props, "columnCount", UNKNOWN) IN
        Ok(<<" ", " ", "-", " ", "\"">> \o format(sheet_name) \o <<"\"", " ", "(ID:", " ">>
             \o format(sheet_id) \o <<")", " ", "|", " ", "Size:", " ">>
             \o format(rows) \o <<"x">> \o format(cols))

\* the loop over sheets: sheets_info after the sheets
RECURSIVE sheets_loop(_, _)
sheets_loop(sheets, sheets_info) ==
  IF sheets = <<>> THEN Ok(sheets_info)
  ELSE LET r == sheet_info(Head(sheets)) IN
    IF r.err THEN Raise ELSE sheets_loop(Tail(sheets), Append(sheets_info, r.v))

\* text_output: the conditional expression takes the whole concatenation as
\* its first branch
text_output_of(title, sheets, sheets_info) ==
  IF sheets_info # <<>>
  THEN <<"Spreadsheet:", " ", "\"">> \o format(title) \o <<"\"", " ", "(ID:", " ">>
         \o spreadsheet_id \o <<")", "\n">>
         \o <<"Sheets", " ", "(">> \o str(Len(sheets)) \o <<"):", "\n">>
         \o join(<<"\n">>, sheets_info)
  ELSE <<" ", " ", "No sheets found">>

\* the code that runs on the response of spreadsheets.get
spreadsheet_info(response) ==
  IF response.t # "dict" THEN Raise
  ELSE LET properties == Get(response, "properties", EmptyDict) IN
    IF properties.t # "dict" THEN Raise
    ELSE LET title == Get(properties, "title", UNKNOWN)
             sheets == Get(response, "sheets", EmptyList) IN
      IF sheets.t # "list" THEN Raise
      ELSE LET r == sheets_loop(sheets.l, <<>>) IN
        IF r.err THEN Raise ELSE Ok(text_output_of(title, sheets.l, r.v))

\* the responses of spreadsheets.get
Sheets ==
  {D([properties |-> D([title |-> S(<<"Q1">>), sheetId |-> N(0),
                        gridProperties |-> D([rowCount |-> N(100), columnCount |-> N(26)])])]),
   D([properties |-> D([title |-> S(<<"Q2">>), sheetId |-> N(7)])]),
   D([properties |-> EmptyDict]),
   EmptyDict,
   D([properties |-> Null])}

Spreadsheets ==
  {D(p @@ s) :
     p \in Opt("properties", {Null, EmptyDict, D([title |-> S(<<"Budget">>)])}),
     s \in Opt("sheets", {Null} \cup {L(ss) : ss \in SeqsUpTo(Sheets, MaxSheets)})}

InitSheets ==
  /\ call = "get_spreadsheet_info"
  /\ pc = "ready"
  /\ elements = EmptyList
  /\ tabs = EmptyList
  /\ level = 0
  /\ target_tab_id = Null
  /\ processed_lines = <<>>
  /\ NoWalk
  /\ NoTool

\* spreadsheets.get answers and the text is built
SpreadsheetsGet ==
  /\ pc = "ready"
  /\ requests' = Append(requests, "spreadsheets.get")
  /\ \E response \in Spreadsheets :
       /\ spreadsheet' = response
       /\ LET r == spreadsheet_info(response) IN
          /\ pc' = IF r.err THEN "raised" ELSE "returned"
          /\ result' = r.v
  /\ UNCHANGED <<more_vars, call, elements, tabs, level, target_tab_id, processed_lines, walk_vars,
                 file_metadata, doc_data>>

\* spreadsheets.get fails
SpreadsheetsGetFails ==
  /\ pc = "ready"
  /\ requests' = Append(requests, "spreadsheets.get")
  /\ pc' = "raised"
  /\ UNCHANGED <<more_vars, call, elements, tabs, level, target_tab_id, processed_lines, walk_vars,
                 file_metadata, doc_data, spreadsheet, result>>

SheetsNext == SpreadsheetsGet \/ SpreadsheetsGetFails

SheetsSpec == InitSheets /\ [][SheetsNext]_vars

---------------------------------------------------------------------------
(* gmail/gmail_tools.py: the helpers that read one message.  A mimeType is  *)
(* a str whose first chunk ends at the "/" when it is a multipart type, so  *)
(* that startswith("multipart/") looks at the first chunk.                  *)

TEXT_PLAIN == <<"text/plain">>
MULTIPART == "multipart/"

\* base64.urlsafe_b64decode(data).decode("utf-8", errors="ignore"), on the
\* encodings the payloads of the model carry; "_w==" is the byte 0xFF, which
\* is not UTF-8 and is dropped
decode(data) ==
  CASE data = <<"SGk=">> -> <<"Hi">>
    [] data = <<"Qnll">> -> <<"Bye">>
    [] data = <<"SGV5">> -> <<"Hey">>
    [] data = <<"_w==">> -> <<>>
    [] OTHER -> <<>>

\* part.get("body", {}).get("data")
body_data_of(part) == Get(Get(part, "body", EmptyDict), "data", Null)

\* part.get("mimeType") == "text/plain" and part.get("body", {}).get("data")
is_plain_text(part) ==
  /\ Get(part, "mimeType", Null) = S(TEXT_PLAIN)
  /\ Truthy(body_data_of(part))

\* part.get("mimeType", "").startswith("multipart/") and "parts" in part
is_multipart(part) ==
  /\ LET mime_type == Get(part, "mimeType", S(<<>>)).s IN
       mime_type # <<>> /\ Head(mime_type) = MULTIPART
  /\ Has(part, "parts")

\* parts = [payload] if "parts" not in payload else payload.get("parts", [])
initial_parts(p) ==
  IF ~Has(p, "parts") THEN <<p>> ELSE Get(p, "parts", EmptyList).l

\* Mutant of extended_queue: the sub-parts go to the front of the queue
extended_queue_depth_first(part, queue) ==
  IF is_multipart(part) THEN Get(part, "parts", EmptyList).l \o queue ELSE queue

\* the queue after a part that is not the plain text body was popped
extended_queue(part, queue) ==
  IF is_multipart(part) THEN queue \o Get(part, "parts", EmptyList).l ELSE queue

\* the while loop: body_data when the loop ends
RECURSIVE part_loop(_)
part_loop(queue) ==
  IF queue = <<>> THEN <<>>
  ELSE LET part == Head(queue) IN
    IF is_plain_text(part) THEN decode(body_data_of(part).s)
    ELSE part_loop(extended_queue(part, Tail(queue)))

\* the check of the main payload after the loop
main_payload_body(p, data) ==
  IF data = <<>> /\ is_plain_text(p) THEN decode(body_data_of(p).s) ELSE data

\* _extract_message_body(payload)
extract_message_body(p) == main_payload_body(p, part_loop(initial_parts(p)))

\* the loop of _extract_headers: the last header of a name wins
RECURSIVE headers_loop(_, _, _)
headers_loop(hs, header_names, headers) ==
  IF hs = <<>> THEN headers
  ELSE LET header == Head(hs) IN
    headers_loop(Tail(hs), header_names,
                 IF header.d["name"] \in header_names
                 THEN [k \in DOMAIN headers \cup {header.d["name"]} |->
                         IF k = header.d["name"] THEN header.d["value"] ELSE headers[k]]
                 ELSE headers)

\* _extract_headers(payload, header_names)
extract_headers(p, header_names) ==
  headers_loop(Get(p, "headers", EmptyList).l, header_names, NoKeys)

\* _generate_gmail_web_url(item_id)
generate_gmail_web_url(item_id) ==
  S(<<"https://mail.google.com/mail/u/", "0", "/#all/">> \o item_id.s)

---------------------------------------------------------------------------
(* get_gmail_messages_content_batch of gmail/gmail_tools.py.  message_ids   *)
(* is cut in chunks; a chunk is asked for in one batch request, whose       *)
(* callback fills results, or, when the batch raises, message by message;   *)
(* the results of the chunk are then turned into messages and errors.       *)

\* the Gmail batch limit
BATCH_LIMIT == 100

\* the length of the short lists of message ids, at most
MaxIds == 2

\* the full chunks of the long lists of message ids, at most
MaxBatches == 1

Min(a, b) == IF a <= b THEN a ELSE b

\* an exception raised by a request; it is true as a condition
E(text) == [t |-> "exception", args |-> text]

\* Mutant of chunk_ids_of: the slice ends one place late
chunk_ids_of_overlapping(ids, start) ==
  SubSeq(ids, start + 1, Min(start + BATCH_LIMIT + 1, Len(ids)))

\* message_ids[chunk_start:chunk_start + 100]
chunk_ids_of(ids, start) == SubSeq(ids, start + 1, Min(start + BATCH_LIMIT, Len(ids)))

\* the positions of ids that hold mid, and the last of them
positions_of(ids, mid) == {i \in 1..Len(ids) : ids[i] = mid}
last_position(ids, mid) ==
  CHOOSE i \in positions_of(ids, mid) : \A j \in positions_of(ids, mid) : j <= i

\* results after results[mid] = {"data": ..., "error": ...} was run for the
\* requests of a chunk, in order: for each id the entry stored last
results_loop(ids, entries, rs) ==
  [k \in DOMAIN rs \cup {ids[i] : i \in 1..Len(ids)} |->
     IF positions_of(ids, k) # {} THEN entries[last_position(ids, k)] ELSE rs[k]]

NO_RESULT == [data |-> Null, error |-> S(<<"No", " ", "result">>)]
NO_DATA_RETURNED == S(<<"No", " ", "data", " ", "returned">>)
NO_SUBJECT == S(<<"(no", " ", "subject)">>)
UNKNOWN_SENDER == S(<<"(unknown", " ", "sender)">>)

\* results.get(mid, {"data": None, "error": "No result"})
entry_of(rs, mid) == IF mid \in DOMAIN rs THEN rs[mid] ELSE NO_RESULT

\* str(entry["error"])
error_text(error) == S(IF error.t = "exception" THEN error.args ELSE error.s)

\* GmailMessageContent for a retrieved message
message_content(mid, message, mode) ==
  LET p == Get(message, "payload", EmptyDict)
      headers == extract_headers(p, {S(<<"Subject">>), S(<<"From">>)})
      subject == IF S(<<"Subject">>) \in DOMAIN headers THEN headers[S(<<"Subject">>)] ELSE NO_SUBJECT
      sender == IF S(<<"From">>) \in DOMAIN headers THEN headers[S(<<"From">>)] ELSE UNKNOWN_SENDER
      text == IF mode = "full" THEN extract_message_body(p) ELSE <<>>
  IN [message_id |-> mid, subject |-> subject, sender |-> sender,
      body |-> IF text = <<>> THEN Null ELSE S(text),
      web_url |-> generate_gmail_web_url(mid)]

\* Mutant of processed: an entry without data yields nothing
processed_no_data_dropped(mid, entry, mode) ==
  IF entry.error # Null
  THEN [messages |-> <<>>, errors |-> <<[message_id |-> mid, error |-> error_text(entry.error)]>>]
  ELSE IF ~Truthy(entry.data)
  THEN [messages |-> <<>>, errors |-> <<>>]
  ELSE [messages |-> <<message_content(mid, entry.data, mode)>>, errors |-> <<>>]

\* what one id of the chunk adds to retrieved_messages and to errors
processed(mid, entry, mode) ==
  IF entry.error # Null
  THEN [messages |-> <<>>, errors |-> <<[message_id |-> mid, error |-> error_text(entry.error)]>>]
  ELSE IF ~Truthy(entry.data)
  THEN [messages |-> <<>>, errors |-> <<[message_id |-> mid, error |-> NO_DATA_RETURNED]>>]
  ELSE [messages |-> <<message_content(mid, entry.data, mode)>>, errors |-> <<>>]

\* what the loop over chunk_ids adds to retrieved_messages and to errors; the
\* loop is cut in two halves, the first before the second, which keeps the
\* evaluation shallow
RECURSIVE process_loop(_, _, _)
process_loop(ids, rs, mode) ==
  IF ids = <<>> THEN [messages |-> <<>>, errors |-> <<>>]
  ELSE IF Len(ids) = 1 THEN processed(ids[1], entry_of(rs, ids[1]), mode)
  ELSE LET half == Len(ids) \div 2
           first == process_loop(SubSeq(ids, 1, half), rs, mode)
           second == process_loop(SubSeq(ids, half + 1, Len(ids)), rs, mode)
       IN [messages |-> first.messages \o second.messages,
           errors |-> first.errors \o second.errors]

\* BatchGmailMessagesResponse
batch_response(ids, messages, errs) ==
  [total_requested |-> Len(ids), total_retrieved |-> Len(messages),
   messages |-> messages, errors |-> errs]

---------------------------------------------------------------------------
(* The calls of get_gmail_messages_content_batch that are followed: short   *)
(* lists over two ids with every answer at every position, and long lists   *)
(* around the batch limit with a failure at the places where chunks meet.   *)

MessageHeader(n, v) == D([name |-> S(<<n>>), value |-> S(<<v>>)])

\* a message with headers and a plain text body, and one without payload
FullMessage ==
  D([id |-> S(<<"x">>),
     payload |-> D([headers |-> L(<<MessageHeader("Subject", "Hello"), MessageHeader("From", "ann")>>),
                    mimeType |-> S(TEXT_PLAIN),
                    body |-> D([data |-> S(<<"SGk=">>)])])])
BareMessage == D([id |-> S(<<"x">>)])

\* what the API answers to messages.get: a message, an exception, nothing
Found(message) == [data |-> message, error |-> Null]
NotFound == [data |-> Null, error |-> E(<<"HttpError", " ", "404">>)]
NoData == [data |-> Null, error |-> Null]
EmptyData == [data |-> EmptyDict, error |-> Null]

ShortIds == {S(<<"a">>), S(<<"b">>)}
ShortAnswers == {Found(FullMessage), Found(BareMessage), NotFound, NoData, EmptyData}

ShortCalls ==
  {c \in [ids : SeqsUpTo(ShortIds, MaxIds), answers : SeqsUpTo(ShortAnswers, MaxIds)] :
     Len(c.ids) = Len(c.answers)}

LongId(i) == S(<<"m">> \o str(i))
LongLens == {k * BATCH_LIMIT + d : k \in 1..MaxBatches, d \in {-1, 0, 1}}
LongIds(n) == {[i \in 1..n |-> LongId(i)], [i \in 1..n |-> LongId(((i - 1) % 2) + 1)]}
FailingPositions(n) ==
  {{}, 1..n, {1}, {n}, {BATCH_LIMIT}, {BATCH_LIMIT + 1} \cap (1..n)}
LongAnswers(n) ==
  {[i \in 1..n |-> IF i \in failing THEN answer ELSE Found(FullMessage)] :
     failing \in FailingPositions(n), answer \in {NotFound, NoData}}

LongCalls ==
  UNION {{[ids |-> q, answers |-> a] : q \in LongIds(n), a \in LongAnswers(n)} : n \in LongLens}

InitBatch ==
  /\ call = "get_gmail_messages_content_batch"
  /\ pc = "ready"
  /\ \E c \in ShortCalls \cup LongCalls :
       message_ids = c.ids /\ answers = c.answers
  /\ message_format \in {"full", "metadata"}
  /\ chunk_start = 0
  /\ results = <<>>
  /\ retrieved_messages = <<>>
  /\ errors = <<>>
  /\ elements = EmptyList
  /\ tabs = EmptyList
  /\ level = 0
  /\ target_tab_id = Null
  /\ processed_lines = <<>>
  /\ NoWalk /\ NoDocTool /\ NoModify /\ NoLabel /\ NoEnv /\ NoBody

\* the ids of the chunk at chunk_start and the answers to their requests
chunk_ids == chunk_ids_of(message_ids, chunk_start)
chunk_answers == chunk_ids_of(answers, chunk_start)

batch_request == [api |-> "batch", start |-> chunk_start, ids |-> chunk_ids]
get_requests ==
  [i \in 1..Len(chunk_ids) |-> [api |-> "messages.get", start |-> chunk_start, id |-> chunk_ids[i]]]

\* if not message_ids: raise
NoMessageIds ==
  /\ pc = "ready"
  /\ message_ids = <<>>
  /\ pc' = "raised"
  /\ UNCHANGED <<call, elements, tabs, level, target_tab_id, processed_lines, walk_vars,
                 tool_vars, batch_vars, modify_vars, label_vars, environ, body_vars>>

\* a chunk is taken, its batch is built and executed: the callback stores
\* the answer to each request
BatchExecute ==
  /\ pc \in {"ready", "loop"}
  /\ chunk_start < Len(message_ids)
  /\ requests' = Append(requests, batch_request)
  /\ results' = results_loop(chunk_ids, chunk_answers, NoKeys)
  /\ pc' = "process"
  /\ UNCHANGED <<call, elements, tabs, level, target_tab_id, processed_lines, walk_vars,
                 file_metadata, doc_data, spreadsheet, result,
                 message_ids, message_format, answers, chunk_start, retrieved_messages, errors,
                 modify_vars, label_vars, environ, body_vars>>

\* building the batch raises: every id of the chunk is fetched on its own
BatchBuildFails ==
  /\ pc \in {"ready", "loop"}
  /\ chunk_start < Len(message_ids)
  /\ requests' = requests \o get_requests
  /\ results' = results_loop(chunk_ids, chunk_answers, NoKeys)
  /\ pc' = "process"
  /\ UNCHANGED <<call, elements, tabs, level, target_tab_id, processed_lines, walk_vars,
                 file_metadata, doc_data, spreadsheet, result,
                 message_ids, message_format, answers, chunk_start, retrieved_messages, errors,
                 modify_vars, label_vars, environ, body_vars>>

\* executing the batch raises: every id of the chunk is fetched on its own
BatchExecuteFails ==
  /\ pc \in {"ready", "loop"}
  /\ chunk_start < Len(message_ids)
  /\ requests' = Append(requests, batch_request) \o get_requests
  /\ results' = results_loop(chunk_ids, chunk_answers, NoKeys)
  /\ pc' = "process"
  /\ UNCHANGED <<call, elements, tabs, level, target_tab_id, processed_lines, walk_vars,
                 file_metadata, doc_data, spreadsheet, result,
                 message_ids, message_format, answers, chunk_start, retrieved_messages, errors,
                 modify_vars, label_vars, environ, body_vars>>

\* the results of the chunk are processed and the next chunk is taken
ProcessResults ==
  /\ pc = "process"
  /\ LET added == process_loop(chunk_ids, results, message_format) IN
       /\ retrieved_messages' = retrieved_messages \o added.messages
       /\ errors' = errors \o added.errors
  /\ chunk_start' = chunk_start + BATCH_LIMIT
  /\ pc' = "loop"
  /\ UNCHANGED <<call, elements, tabs, level, target_tab_id, processed_lines, walk_vars,
                 tool_vars, message_ids, message_format, answers, results,
                 modify_vars, label_vars, environ, body_vars>>

\* the loop is over: the response is returned
ReturnResponse ==
  /\ pc = "loop"
  /\ chunk_start >= Len(message_ids)
  /\ result' = batch_response(message_ids, retrieved_messages, errors)
  /\ pc' = "returned"
  /\ UNCHANGED <<call, elements, tabs, level, target_tab_id, processed_lines, walk_vars,
                 file_metadata, doc_data, requests, spreadsheet,
                 batch_vars, modify_vars, label_vars, environ, body_vars>>

BatchNext ==
  NoMessageIds \/ BatchExecute \/ BatchBuildFails \/ BatchExecuteFails
    \/ ProcessResults \/ ReturnResponse

BatchSpec == InitBatch /\ [][BatchNext]_vars

---------------------------------------------------------------------------
(* modify_sheet_values of gsheets/sheets_tools.py: the arguments are        *)
(* checked, then one values().clear or one values().update is issued and    *)
(* the confirmation text is built from its response.                        *)

\* the text returned after a clear
cleared_text(response, range, email) ==
  <<"Successfully", " ", "cleared", " ", "range", " ", "'">>
    \o format(Get(response, "clearedRange", S(range)))
    \o <<"'", " ", "in", " ", "spreadsheet", " ">> \o spreadsheet_id
    \o <<" ", "for", " ">> \o format(email) \o <<".">>

\* the text returned after an update
updated_text(response, range, email) ==
  <<"Successfully", " ", "updated", " ", "range", " ", "'">> \o range
    \o <<"'", " ", "in", " ", "spreadsheet", " ">> \o spreadsheet_id
    \o <<" ", "for", " ">> \o format(email) \o <<".", " ", "Updated:", " ">>
    \o format(Get(response, "updatedCells", N(0))) \o <<" ", "cells,", " ">>
    \o format(Get(response, "updatedRows", N(0))) \o <<" ", "rows,", " ">>
    \o format(Get(response, "updatedColumns", N(0))) \o <<" ", "columns.">>

\* if not clear_values and not values: raise
modify_rejected(vals, clear) == ~clear /\ ~Truthy(vals)

\* Mutant of modify_request: values that are given are written even when
\* clear_values is set
modify_request_values_first(range, vals, option, clear) ==
  IF clear /\ ~Truthy(vals) THEN [api |-> "values.clear", range |-> range]
  ELSE [api |-> "values.update", range |-> range, valueInputOption |-> option,
        body |-> D([values |-> vals])]

\* the request issued when the arguments are accepted
modify_request(range, vals, option, clear) ==
  IF clear THEN [api |-> "values.clear", range |-> range]
  ELSE [api |-> "values.update", range |-> range, valueInputOption |-> option,
        body |-> D([values |-> vals])]

ValuesArgs ==
  {Null, EmptyList, L(<<EmptyList>>), L(<<L(<<S(<<"a">>)>>)>>),
   L(<<L(<<S(<<"a">>), S(<<"b">>)>>), L(<<S(<<"c">>), S(<<"d">>)>>)>>)}

ClearResponses == {EmptyDict, D([clearedRange |-> S(<<"Sheet1!A1:B2">>)])}

UpdateResponses ==
  {EmptyDict, D([updatedCells |-> N(4)]),
   D([updatedCells |-> N(2), updatedRows |-> N(1), updatedColumns |-> N(2)])}

InitModify ==
  /\ call = "modify_sheet_values"
  /\ pc = "ready"
  /\ range_name \in {<<"A1:B2">>, <<"Sheet1!A1:B2">>}
  /\ user_google_email \in {Null, S(<<"ann@example.com">>)}
  /\ values \in ValuesArgs
  /\ value_input_option \in {<<"USER_ENTERED">>, <<"RAW">>}
  /\ clear_values \in BOOLEAN
  /\ elements = EmptyList
  /\ tabs = EmptyList
  /\ level = 0
  /\ target_tab_id = Null
  /\ processed_lines = <<>>
  /\ NoWalk /\ NoDocTool /\ NoBatch /\ NoLabel /\ NoEnv /\ NoBody

\* neither values nor clear_values: the call raises
ModifyRejected ==
  /\ pc = "ready"
  /\ modify_rejected(values, clear_values)
  /\ pc' = "raised"
  /\ UNCHANGED <<call, elements, tabs, level, target_tab_id, processed_lines, walk_vars,
                 tool_vars, more_vars>>

\* the range is cleared
ClearValues ==
  /\ pc = "ready"
  /\ ~modify_rejected(values, clear_values)
  /\ modify_request(range_name, values, value_input_option, clear_values).api = "values.clear"
  /\ requests' = Append(requests, modify_request(range_name, values, value_input_option, clear_values))
  /\ \E response \in ClearResponses :
       /\ spreadsheet' = response
       /\ result' = cleared_text(response, range_name, user_google_email)
  /\ pc' = "returned"
  /\ UNCHANGED <<call, elements, tabs, level, target_tab_id, processed_lines, walk_vars,
                 file_metadata, doc_data, more_vars>>

\* the values are written
UpdateValues ==
  /\ pc = "ready"
  /\ ~modify_rejected(values, clear_values)
  /\ modify_request(range_name, values, value_input_option, clear_values).api = "values.update"
  /\ requests' = Append(requests, modify_request(range_name, values, value_input_option, clear_values))
  /\ \E response \in UpdateResponses :
       /\ spreadsheet' = response
       /\ result' = updated_text(response, range_name, user_google_email)
  /\ pc' = "returned"
  /\ UNCHANGED <<call, elements, tabs, level, target_tab_id, processed_lines, walk_vars,
                 file_metadata, doc_data, more_vars>>

\* the request is issued and fails
ModifyFails ==
  /\ pc = "ready"
  /\ ~modify_rejected(values, clear_values)
  /\ requests' = Append(requests, modify_request(range_name, values, value_input_option, clear_values))
  /\ pc' = "raised"
  /\ UNCHANGED <<call, elements, tabs, level, target_tab_id, processed_lines, walk_vars,
                 file_metadata, doc_data, spreadsheet, result, more_vars>>

ModifyNext == ModifyRejected \/ ClearValues \/ UpdateValues \/ ModifyFails

ModifySpec == InitModify /\ [][ModifyNext]_vars

---------------------------------------------------------------------------
(* manage_gmail_label of gmail/gmail_tools.py: the arguments are checked,   *)
(* then create issues labels.create, update issues labels.get and           *)
(* labels.update, delete issues labels.get and labels.delete.               *)

\* Mutant of label_rejected: only the name of create is checked
label_rejected_name_only(act, label_name, id) ==
  act = "create" /\ ~Truthy(label_name)

\* the two checks of the arguments
label_rejected(act, label_name, id) ==
  \/ act = "create" /\ ~Truthy(label_name)
  \/ act \in {"update", "delete"} /\ ~Truthy(id)

\* the label_object of create and of update
label_object(fields, list_visibility, message_visibility) ==
  D(fields @@ [labelListVisibility |-> S(list_visibility),
               messageListVisibility |-> S(message_visibility)])

\* name if name is not None else current_label["name"]
updated_name(label_name, current) ==
  IF label_name # Null THEN label_name ELSE current.d["name"]

\* ManageGmailLabelResponse
label_response(act, id, label_name, done) ==
  [success |-> TRUE, action |-> act, label_id |-> id, label_name |-> label_name,
   message |-> <<"Label", " ", "'">> \o label_name.s \o <<"'", " ", done, " ", "successfully">>]

LabelNames == {Null, S(<<>>), S(<<"Work">>)}
LabelIdArgs == {Null, S(<<>>), S(<<"Label_1">>)}

\* the labels the API answers with
Labels == {D([id |-> S(<<"Label_1">>), name |-> S(n)]) : n \in {<<"Work">>, <<"Old">>}}

InitLabel ==
  /\ call = "manage_gmail_label"
  /\ pc = "ready"
  /\ action \in {"create", "update", "delete"}
  /\ name \in LabelNames
  /\ label_id \in LabelIdArgs
  /\ label_list_visibility \in {<<"labelShow">>, <<"labelHide">>}
  /\ message_list_visibility \in {<<"show">>, <<"hide">>}
  /\ current_label = Null
  /\ elements = EmptyList
  /\ tabs = EmptyList
  /\ level = 0
  /\ target_tab_id = Null
  /\ processed_lines = <<>>
  /\ NoWalk /\ NoDocTool /\ NoBatch /\ NoModify /\ NoEnv /\ NoBody

\* a required argument is missing: the call raises
LabelRejected ==
  /\ pc = "ready"
  /\ label_rejected(action, name, label_id)
  /\ pc' = "raised"
  /\ UNCHANGED <<call, elements, tabs, level, target_tab_id, processed_lines, walk_vars,
                 tool_vars, more_vars>>

\* create: labels.create answers
CreateLabel ==
  /\ pc = "ready"
  /\ ~label_rejected(action, name, label_id)
  /\ action = "create"
  /\ requests' = Append(requests,
       [api |-> "labels.create",
        body |-> label_object([name |-> name], label_list_visibility, message_list_visibility)])
  /\ \E created_label \in Labels :
       result' = label_response("create", created_label.d["id"], created_label.d["name"], "created")
  /\ pc' = "returned"
  /\ UNCHANGED <<call, elements, tabs, level, target_tab_id, processed_lines, walk_vars,
                 file_metadata, doc_data, spreadsheet, more_vars>>

\* update and delete: labels.get answers
GetLabel ==
  /\ pc = "ready"
  /\ ~label_rejected(action, name, label_id)
  /\ action \in {"update", "delete"}
  /\ requests' = Append(requests, [api |-> "labels.get", id |-> label_id])
  /\ current_label' \in Labels
  /\ pc' = IF action = "update" THEN "labels.update" ELSE "labels.delete"
  /\ UNCHANGED <<call, elements, tabs, level, target_tab_id, processed_lines, walk_vars,
                 file_metadata, doc_data, spreadsheet, result,
                 batch_vars, modify_vars, action, name, label_id, label_list_visibility,
                 message_list_visibility, environ, body_vars>>

\* update: labels.update answers
UpdateLabel ==
  /\ pc = "labels.update"
  /\ requests' = Append(requests,
       [api |-> "labels.update", id |-> label_id,
        body |-> label_object([id |-> label_id, name |-> updated_name(name, current_label)],
                              label_list_visibility, message_list_visibility)])
  /\ \E updated_label \in Labels :
       result' = label_response("update", updated_label.d["id"], updated_label.d["name"], "updated")
  /\ pc' = "returned"
  /\ UNCHANGED <<call, elements, tabs, level, target_tab_id, processed_lines, walk_vars,
                 file_metadata, doc_data, spreadsheet, more_vars>>

\* delete: labels.delete answers
DeleteLabel ==
  /\ pc = "labels.delete"
  /\ requests' = Append(requests, [api |-> "labels.delete", id |-> label_id])
  /\ result' = label_response("delete", label_id, current_label.d["name"], "deleted")
  /\ pc' = "returned"
  /\ UNCHANGED <<call, elements, tabs, level, target_tab_id, processed_lines, walk_vars,
                 file_metadata, doc_data, spreadsheet, more_vars>>

\* the request the call is about to issue is issued and fails
LabelRequestFails ==
  /\ \/ pc = "ready" /\ ~label_rejected(action, name, label_id)
     \/ pc \in {"labels.update", "labels.delete"}
  /\ requests' = Append(requests,
       IF pc = "ready" /\ action = "create"
       THEN [api |-> "labels.create",
             body |-> label_object([name |-> name], label_list_visibility, message_list_visibility)]
       ELSE IF pc = "ready" THEN [api |-> "labels.get", id |-> label_id]
       ELSE IF pc = "labels.delete" THEN [api |-> "labels.delete", id |-> label_id]
       ELSE [api |-> "labels.update", id |-> label_id,
             body |-> label_object([id |-> label_id, name |-> updated_name(name, current_label)],
                                   label_list_visibility, message_list_visibility)])
  /\ pc' = "raised"
  /\ UNCHANGED <<call, elements, tabs, level, target_tab_id, processed_lines, walk_vars,
                 file_metadata, doc_data, spreadsheet, result, more_vars>>

LabelNext ==
  LabelRejected \/ CreateLabel \/ GetLabel \/ UpdateLabel \/ DeleteLabel \/ LabelRequestFails

LabelSpec == InitLabel /\ [][LabelNext]_vars

---------------------------------------------------------------------------
(* The credentials of the environment.  test_env_simple.py reads the        *)
(* variables and tests them itself; load_credentials_from_env and           *)
(* validate_environment_credentials of auth/google_auth.py are called by    *)
(* test_env_auth.py and are modelled from what the tests state about them.  *)
(* A string of the environment is a str whose "," and whose "https://" or   *)
(* "http://" prefix are chunks of their own.                                *)

CLIENT_ID == "GOOGLE_OAUTH_CLIENT_ID"
CLIENT_SECRET == "GOOGLE_OAUTH_CLIENT_SECRET"
REFRESH_TOKEN == "GOOGLE_OAUTH_REFRESH_TOKEN"
ACCESS_TOKEN == "GOOGLE_OAUTH_ACCESS_TOKEN"
TOKEN_URI == "GOOGLE_OAUTH_TOKEN_URI"
SCOPES == "GOOGLE_OAUTH_SCOPES"

\* os.getenv(var)
getenv(env, var) == IF var \in DOMAIN env THEN env[var] ELSE Null

\* Mutant of env_mode_available: the refresh token is not asked for
env_mode_available_without_refresh(env) ==
  Truthy(getenv(env, CLIENT_ID)) /\ Truthy(getenv(env, CLIENT_SECRET))

\* client_id and client_secret and refresh_token
env_mode_available(env) ==
  /\ Truthy(getenv(env, CLIENT_ID))
  /\ Truthy(getenv(env, CLIENT_SECRET))
  /\ Truthy(getenv(env, REFRESH_TOKEN))

\* token_uri and not token_uri.startswith("https://")
token_uri_not_https(env) ==
  LET token_uri == getenv(env, TOKEN_URI) IN
    Truthy(token_uri) /\ Head(token_uri.s) # "https://"

\* scopes_str.split(",")
RECURSIVE split(_, _)
split(s, current) ==
  IF s = <<>> THEN <<current>>
  ELSE IF Head(s) = "," THEN <<current>> \o split(Tail(s), <<>>)
  ELSE split(Tail(s), Append(current, Head(s)))

\* [scope.strip() for scope in scopes_str.split(",")]
scopes_of(scopes_str) ==
  LET pieces == split(scopes_str, <<>>) IN [i \in 1..Len(pieces) |-> strip(pieces[i])]

\* scopes_str is set and: not scopes or any(not scope for scope in scopes)
scopes_have_empty(env) ==
  LET scopes_str == getenv(env, SCOPES) IN
    /\ Truthy(scopes_str)
    /\ LET scopes == scopes_of(scopes_str.s) IN
         scopes = <<>> \/ \E i \in 1..Len(scopes) : scopes[i] = <<>>

\* load_credentials_from_env(): None unless the three required variables
\* are set, else credentials that carry the values of the environment
load_credentials_from_env(env) ==
  IF ~env_mode_available(env) THEN Null
  ELSE [client_id |-> getenv(env, CLIENT_ID),
        client_secret |-> getenv(env, CLIENT_SECRET),
        refresh_token |-> getenv(env, REFRESH_TOKEN),
        token |-> getenv(env, ACCESS_TOKEN),
        scopes |-> IF Truthy(getenv(env, SCOPES)) THEN scopes_of(getenv(env, SCOPES).s) ELSE <<>>]

\* validate_environment_credentials(): is_valid
validate_environment_credentials(env) ==
  /\ env_mode_available(env)
  /\ ~token_uri_not_https(env)
  /\ ~scopes_have_empty(env)

Required == {Null, S(<<>>), S(<<"test_value">>)}
TokenUris ==
  {Null, S(<<"https://", "oauth2.googleapis.com/token">>), S(<<"http://", "invalid.uri">>)}
ScopeStrings ==
  {Null, S(<<>>), S(<<",", ",">>), S(<<"gmail.readonly", ",", "calendar">>),
   S(<<"gmail.readonly", ",", " ", "calendar">>), S(<<"gmail.readonly", ",", " ">>)}

\* the environments: a variable that is not set is not in the domain
Bind(var, value) == IF value = Null THEN NoKeys ELSE var :> value
Environments ==
  {Bind(CLIENT_ID, a) @@ Bind(CLIENT_SECRET, b) @@ Bind(REFRESH_TOKEN, c)
     @@ Bind(ACCESS_TOKEN, d) @@ Bind(TOKEN_URI, e) @@ Bind(SCOPES, f) :
     a \in Required, b \in Required, c \in Required,
     d \in {Null, S(<<"test_access_token">>)}, e \in TokenUris, f \in ScopeStrings}

InitEnv ==
  /\ call \in {"load_credentials_from_env", "validate_environment_credentials"}
  /\ pc = "ready"
  /\ environ \in Environments
  /\ elements = EmptyList
  /\ tabs = EmptyList
  /\ level = 0
  /\ target_tab_id = Null
  /\ processed_lines = <<>>
  /\ NoWalk /\ NoDocTool /\ NoBatch /\ NoModify /\ NoLabel /\ NoBody

LoadCredentials ==
  /\ pc = "ready"
  /\ call = "load_credentials_from_env"
  /\ result' = load_credentials_from_env(environ)
  /\ pc' = "returned"
  /\ UNCHANGED <<call, elements, tabs, level, target_tab_id, processed_lines, walk_vars,
                 file_metadata, doc_data, requests, spreadsheet, more_vars>>

ValidateCredentials ==
  /\ pc = "ready"
  /\ call = "validate_environment_credentials"
  /\ result' = validate_environment_credentials(environ)
  /\ pc' = "returned"
  /\ UNCHANGED <<call, elements, tabs, level, target_tab_id, processed_lines, walk_vars,
                 file_metadata, doc_data, requests, spreadsheet, more_vars>>

EnvNext == LoadCredentials \/ ValidateCredentials

EnvSpec == InitEnv /\ [][EnvNext]_vars

---------------------------------------------------------------------------
(* _extract_message_body of gmail/gmail_tools.py, one step of its queue at  *)
(* a time.                                                                  *)

\* the parts of a part of the payloads, at most
MaxParts == 2

\* a part without parts
Leaf(mime_type, part_body) ==
  D((IF mime_type = Null THEN NoKeys ELSE "mimeType" :> mime_type)
      @@ (IF part_body = Null THEN NoKeys ELSE "body" :> part_body))

\* a part with parts
Container(mime_type, part_body, parts) ==
  D(Leaf(mime_type, part_body).d @@ ("parts" :> L(parts)))

\* the body of a part with encoded data
Data(data) == D("data" :> S(data))

Leaves ==
  {Leaf(m, b) : m \in {S(TEXT_PLAIN), S(<<"text/html">>)},
                b \in {Null, EmptyDict, Data(<<>>), Data(<<"SGk=">>), Data(<<"Qnll">>),
                       Data(<<"_w==">>)}}
    \cup {Leaf(Null, Data(<<"SGk=">>)), Leaf(S(<<MULTIPART, "alternative">>), Null)}

InnerLeaves ==
  {Leaf(S(TEXT_PLAIN), Data(<<"SGk=">>)), Leaf(S(TEXT_PLAIN), Data(<<"Qnll">>)),
   Leaf(S(TEXT_PLAIN), Data(<<"_w==">>)), Leaf(S(TEXT_PLAIN), Data(<<>>)),
   Leaf(S(TEXT_PLAIN), Null), Leaf(S(<<"text/html">>), Data(<<"SGk=">>))}

ContainerTypes ==
  {S(<<MULTIPART, "alternative">>), S(<<"multipart">>), S(<<"message/rfc822">>)}

InnerContainers ==
  {Container(m, Null, parts) :
     m \in ContainerTypes,
     parts \in {<<>>} \cup {<<part>> : part \in {Leaf(S(TEXT_PLAIN), Data(<<"SGk=">>)),
                                                   Leaf(S(TEXT_PLAIN), Data(<<"_w==">>)),
                                                   Leaf(S(<<"text/html">>), Data(<<"SGk=">>))}}}

PartLists == UNION {[1..n -> InnerLeaves \cup InnerContainers] : n \in 0..MaxParts}

\* the payloads: a text/plain payload may carry parts as well
MessagePayloads ==
  Leaves
    \cup {Container(m, Null, parts) : m \in ContainerTypes, parts \in PartLists}
    \cup {Container(S(TEXT_PLAIN), Data(<<"SGV5">>), parts) : parts \in PartLists}

InitBody ==
  /\ call = "_extract_message_body"
  /\ pc = "ready"
  /\ payload \in MessagePayloads
  /\ part_queue = <<>>
  /\ body_data = <<>>
  /\ elements = EmptyList
  /\ tabs = EmptyList
  /\ level = 0
  /\ target_tab_id = Null
  /\ processed_lines = <<>>
  /\ NoWalk /\ NoDocTool /\ NoBatch /\ NoModify /\ NoLabel /\ NoEnv

\* body_data = ""; parts = ...; part_queue = list(parts)
StartQueue ==
  /\ pc = "ready"
  /\ call = "_extract_message_body"
  /\ part_queue' = initial_parts(payload)
  /\ body_data' = <<>>
  /\ pc' = "loop"
  /\ UNCHANGED <<call, elements, tabs, level, target_tab_id, processed_lines, walk_vars,
                 file_metadata, doc_data, requests, spreadsheet, result, batch_vars,
                 modify_vars, label_vars, environ, payload>>

\* part = part_queue.pop(0), the plain text body: decode and break
FoundPlainText ==
  /\ pc = "loop"
  /\ part_queue # <<>>
  /\ is_plain_text(Head(part_queue))
  /\ part_queue' = Tail(part_queue)
  /\ body_data' = decode(body_data_of(Head(part_queue)).s)
  /\ pc' = "check"
  /\ UNCHANGED <<call, elements, tabs, level, target_tab_id, processed_lines, walk_vars,
                 file_metadata, doc_data, requests, spreadsheet, result, batch_vars,
                 modify_vars, label_vars, environ, payload>>

\* part = part_queue.pop(0), another part: its sub-parts are queued when it
\* is a multipart
NextPart ==
  /\ pc = "loop"
  /\ part_queue # <<>>
  /\ ~is_plain_text(Head(part_queue))
  /\ part_queue' = extended_queue(Head(part_queue), Tail(part_queue))
  /\ UNCHANGED <<call, elements, tabs, level, target_tab_id, processed_lines, walk_vars,
                 file_metadata, doc_data, requests, spreadsheet, result, batch_vars,
                 modify_vars, label_vars, environ, payload, body_data, pc>>

\* while part_queue: the queue is empty
QueueEmpty ==
  /\ pc = "loop"
  /\ part_queue = <<>>
  /\ pc' = "check"
  /\ UNCHANGED <<call, elements, tabs, level, target_tab_id, processed_lines, walk_vars,
                 file_metadata, doc_data, requests, spreadsheet, result, batch_vars,
                 modify_vars, label_vars, environ, body_vars>>

\* the check of the main payload, and return body_data
ReturnBody ==
  /\ pc = "check"
  /\ body_data' = main_payload_body(payload, body_data)
  /\ result' = S(body_data')
  /\ pc' = "returned"
  /\ UNCHANGED <<call, elements, tabs, level, target_tab_id, processed_lines, walk_vars,
                 file_metadata, doc_data, requests, spreadsheet, batch_vars,
                 modify_vars, label_vars, environ, payload, part_queue>>

BodyNext == StartQueue \/ FoundPlainText \/ NextPart \/ QueueEmpty \/ ReturnBody

\* the function runs on: every step that can be taken is taken
BodySpec == InitBody /\ [][BodyNext]_vars /\ WF_vars(BodyNext)

---------------------------------------------------------------------------
(* Helpers of the properties *)

\* the concatenation of a sequence of sequences
RECURSIVE Concat(_)
Concat(ss) == IF ss = <<>> THEN <<>> ELSE Head(ss) \o Concat(Tail(ss))

ElementsReturned == call = "process_structural_elements" /\ pc = "returned"
TabsReturned == call = "process_tabs_recursively" /\ pc = "returned"

\* the subsequence of s of the elements at the positions satisfying keep
Pick(s, keep) ==
  LET RECURSIVE from(_)
      from(i) == IF i > Len(s) THEN <<>>
                 ELSE IF keep[i] THEN <<s[i]>> \o from(i + 1) ELSE from(i + 1)
  IN from(1)

---------------------------------------------------------------------------
\* C1: the renderer cannot fail: for every input tree, well-formed or
\* malformed, process_tabs_recursively and process_structural_elements return
\* a list of lines and never raise.
C1_NeverRaises == pc # "raised"

\* the smallest failing input: one element whose paragraph is None
C1_RaisedOnNullParagraph ==
  /\ call = "process_structural_elements"
  /\ elements = L(<<D([paragraph |-> Null])>>)
  /\ pc = "raised"

---------------------------------------------------------------------------
\* C2: a table element renders as the TABLE marker, then, for each row in
\* row order, one line joining every cell's trimmed rendered text with " | "
\* (and ended by a newline) if and only if some cell of the row has non-empty
\* trimmed text, then the END TABLE marker.
C2_IsTable(e) == Has(e, "table") /\ ~Has(e, "paragraph")

C2_CellText(cell) ==
  strip(Concat(process_structural_elements(Get(cell, "content", EmptyList)).v))

C2_RowTexts(row) ==
  LET cells == Get(row, "tableCells", EmptyList).l IN
  [j \in 1..Len(cells) |-> C2_CellText(cells[j])]

C2_RowLine(row) == join(<<" ", "|", " ">>, C2_RowTexts(row)) \o <<"\n">>

C2_RowShown(row) == \E j \in 1..Len(C2_RowTexts(row)) : C2_RowTexts(row)[j] # <<>>

C2_Table(e) ==
  LET rows == Get(e.d["table"], "tableRows", EmptyList).l
      shown == Pick(rows, [i \in 1..Len(rows) |-> C2_RowShown(rows[i])]) IN
  <<TABLE_START>> \o [i \in 1..Len(shown) |-> C2_RowLine(shown[i])] \o <<TABLE_END>>

C2_TableRows ==
  ElementsReturned =>
    processed_lines =
      Concat([i \in 1..Len(elements.l) |->
                IF C2_IsTable(elements.l[i]) THEN C2_Table(elements.l[i])
                ELSE element_lines(elements.l[i]).v])

\* rows ["a ", " "] and [" ", " "]: one line "a | ", nothing for the second row
C2_Witness ==
  /\ ElementsReturned
  /\ elements = L(<<Table(<<Row(<<Cell(<<Para(<<"a", " ">>)>>), Cell(<<Para(<<" ">>)>>)>>),
                            Row(<<Cell(<<Para(<<" ">>)>>), Cell(<<Para(<<" ">>)>>)>>)>>)>>)
  /\ processed_lines = <<TABLE_START, <<"a", " ", "|", " ", "\n">>, TABLE_END>>

---------------------------------------------------------------------------
\* C3: a paragraph element emits no line when the concatenation of its
\* text-run contents (in run order, runs without text content skipped) is
\* empty or whitespace-only, and otherwise exactly one line equal to that
\* concatenation, untrimmed.
C3_RunHasText(pe) ==
  /\ Has(pe, "textRun")
  /\ pe.d["textRun"].t = "dict"
  /\ Has(pe.d["textRun"], "content")

C3_Text(e) ==
  LET pes == Get(e.d["paragraph"], "elements", EmptyList).l
      runs == Pick(pes, [i \in 1..Len(pes) |-> C3_RunHasText(pes[i])]) IN
  Concat([i \in 1..Len(runs) |-> runs[i].d["textRun"].d["content"].s])

C3_Blank(text) == \A i \in 1..Len(text) : text[i] \in {" ", "\n"}

C3_Paragraph(e) == IF C3_Blank(C3_Text(e)) THEN <<>> ELSE <<C3_Text(e)>>

C3_ParagraphLine ==
  ElementsReturned =>
    processed_lines =
      Concat([i \in 1..Len(elements.l) |->
                IF Has(elements.l[i], "paragraph") THEN C3_Paragraph(elements.l[i])
                ELSE element_lines(elements.l[i]).v])

\* a run without a text run, then runs " " and "a": the one line " a"
C3_Witness ==
  /\ ElementsReturned
  /\ \E pes \in SeqsUpTo(Runs, MaxRuns) :
       /\ elements = L(<<D([paragraph |-> D([elements |-> L(pes)])])>>)
       /\ Len(pes) = 2
       /\ pes[1] = Run(<<" ">>)
       /\ pes[2] = Run(<<"a">>)
  /\ processed_lines = <<<<" ", "a">>>>

---------------------------------------------------------------------------
(* Helpers of the properties of process_tabs_recursively *)

\* n spaces
Spaces(n) == [k \in 1..n |-> " "]

\* the title and the id shown for the tab at 1-based position n
ShownTitle(tab, n) ==
  LET props == Get(tab, "tabProperties", EmptyDict) IN
  IF Has(props, "title") THEN props.d["title"] ELSE S(<<"Tab", " ">> \o str(n))

ShownId(tab) ==
  LET props == Get(tab, "tabProperties", EmptyDict) IN
  IF Has(props, "tabId") THEN props.d["tabId"] ELSE S(<<"unknown">>)

\* the tab is rendered: no target id is given, or the tab has it
IsRendered(tab, target) == ~Truthy(target) \/ ShownId(tab) = target

TopTab(i) == tabs.l[i]

\* the part of processed_lines the i-th top-level tab appended
TabLength(i) == Len(tab_lines(TopTab(i), i - 1, level, target_tab_id).v)

RECURSIVE TabOffset(_)
TabOffset(i) == IF i <= 1 THEN 0 ELSE TabOffset(i - 1) + TabLength(i - 1)

TabSegment(i) == SubSeq(processed_lines, TabOffset(i) + 1, TabOffset(i) + TabLength(i))

RenderedTopTabs == {i \in 1..Len(tabs.l) : IsRendered(TopTab(i), target_tab_id)}

\* the tabs of a nesting relation: none when the key is absent, None or empty
Related(tab, key) ==
  LET sub == Get(tab, key, EmptyList) IN IF sub.t = "list" THEN sub ELSE EmptyList

---------------------------------------------------------------------------
\* C4: both nesting relations are walked and never deduplicated: for every
\* rendered tab, a non-empty childTabs list produces a CHILD TABS ... END
\* CHILD TABS block holding the rendering of those tabs at level + 1, and a
\* non-empty tabs list produces a NESTED TABS ... END NESTED TABS block
\* after it; a tab in both relations is rendered twice.
C4_Block(tab, key, start, end) ==
  IF Related(tab, key) = EmptyList THEN <<>>
  ELSE <<Spaces(2 * level) \o <<start, "\n">>>>
         \o process_tabs_recursively(Related(tab, key), level + 1, target_tab_id).v
         \o <<Spaces(2 * level) \o <<end, "\n">>>>

C4_Blocks(tab) ==
  C4_Block(tab, "childTabs", "--- CHILD TABS ---", "--- END CHILD TABS ---")
    \o C4_Block(tab, "tabs", "--- NESTED TABS ---", "--- END NESTED TABS ---")

C4_BothRelationsWalked ==
  TabsReturned =>
    \A i \in RenderedTopTabs :
      LET seg == TabSegment(i)
          blocks == C4_Blocks(TopTab(i)) IN
      /\ Len(seg) >= 1 + Len(blocks)
      /\ SubSeq(seg, Len(seg) - Len(blocks) + 1, Len(seg)) = blocks
      /\ Len(seg) = 1 + Len(body_lines(TopTab(i), level).v) + Len(blocks)

\* the tab Notes is in both relations of the tab Top and is rendered twice
C4_Witness ==
  /\ TabsReturned
  /\ level = 0
  /\ target_tab_id = Null
  /\ tabs = L(<<D([tabProperties |-> D([title |-> S(<<"Top">>), tabId |-> S(<<"t0">>)]),
                   childTabs |-> L(<<NotesTab>>), tabs |-> L(<<NotesTab>>)])>>)
  /\ processed_lines =
       <<TAB_MARKER(<<>>, 1, S(<<"Top">>), S(<<"t0">>)),
         <<"[NO DOCUMENT TAB CONTENT]", "\n">>,
         <<"--- CHILD TABS ---", "\n">>,
         TAB_MARKER(<<" ", " ">>, 1, S(<<"Notes">>), S(<<"t1">>)),
         <<" ", " ", "a">>,
         <<"--- END CHILD TABS ---", "\n">>,
         <<"--- NESTED TABS ---", "\n">>,
         TAB_MARKER(<<" ", " ">>, 1, S(<<"Notes">>), S(<<"t1">>)),
         <<" ", " ", "a">>,
         <<"--- END NESTED TABS ---", "\n">>>>

---------------------------------------------------------------------------
\* C5 as stated: [NO BODY CONTENT] is emitted whenever the tab has a
\* document sub-tree (documentTab present, including an empty one) but no body
\* under it, and [NO DOCUMENT TAB CONTENT] only when the tab has no document
\* sub-tree at all.
C5_HasDocumentTab(tab) == Has(tab, "documentTab") /\ tab.d["documentTab"].t = "dict"

C5_HasBody(tab) ==
  /\ C5_HasDocumentTab(tab)
  /\ Has(tab.d["documentTab"], "body")
  /\ Truthy(tab.d["documentTab"].d["body"])

\* the entry after the marker of the i-th top-level tab, if any
C5_Placeholder(i) == IF Len(TabSegment(i)) >= 2 THEN TabSegment(i)[2] ELSE <<>>

C5_Original ==
  TabsReturned =>
    \A i \in RenderedTopTabs :
      /\ (C5_HasDocumentTab(TopTab(i)) /\ ~C5_HasBody(TopTab(i)))
           => C5_Placeholder(i) = Spaces(2 * level) \o <<"[NO BODY CONTENT]", "\n">>
      /\ C5_Placeholder(i) = Spaces(2 * level) \o <<"[NO DOCUMENT TAB CONTENT]", "\n">>
           => ~C5_HasDocumentTab(TopTab(i))

\* C5 as amended: [NO BODY CONTENT] is emitted exactly when the tab has a
\* non-empty document sub-tree but no body under it, and [NO DOCUMENT TAB
\* CONTENT] exactly when documentTab is absent, None or empty: an empty
\* documentTab counts as no document sub-tree.
C5_NonEmptyDocumentTab(tab) ==
  C5_HasDocumentTab(tab) /\ DOMAIN tab.d["documentTab"].d # {}

C5_Placeholders ==
  TabsReturned =>
    \A i \in RenderedTopTabs :
      /\ (C5_NonEmptyDocumentTab(TopTab(i)) /\ ~C5_HasBody(TopTab(i)))
           <=> C5_Placeholder(i) = Spaces(2 * level) \o <<"[NO BODY CONTENT]", "\n">>
      /\ ~C5_NonEmptyDocumentTab(TopTab(i))
           <=> C5_Placeholder(i) = Spaces(2 * level) \o <<"[NO DOCUMENT TAB CONTENT]", "\n">>

\* an empty documentTab, rendered at level 1
C5_Witness ==
  /\ TabsReturned
  /\ level = 1
  /\ tabs = L(<<D([tabProperties |-> D([tabId |-> S(<<"t2">>)]), documentTab |-> EmptyDict])>>)
  /\ processed_lines =
       <<TAB_MARKER(<<" ", " ">>, 1, S(<<"Tab", " ", "1">>), S(<<"t2">>)),
         <<" ", " ", "[NO DOCUMENT TAB CONTENT]", "\n">>>>

---------------------------------------------------------------------------
\* C6: a rendered tab that has a document body whose content is empty and
\* that has no child or nested tabs emits exactly two entries: the tab marker
\* with its title and id, then one [EMPTY TAB CONTENT] placeholder carrying
\* the level's indent.
C6_EmptyBody(tab) ==
  /\ C5_HasBody(tab)
  /\ Has(tab.d["documentTab"].d["body"], "content")
  /\ tab.d["documentTab"].d["body"].d["content"] = EmptyList

C6_EmptyTab ==
  TabsReturned =>
    \A i \in RenderedTopTabs :
      (/\ C6_EmptyBody(TopTab(i))
       /\ Related(TopTab(i), "childTabs") = EmptyList
       /\ Related(TopTab(i), "tabs") = EmptyList)
        => TabSegment(i) =
             <<<<"\n">> \o Spaces(2 * level) \o <<"===", " ", "TAB", " ">> \o str(i) \o <<":", " ">>
                 \o ShownTitle(TopTab(i), i).s \o <<" ", "(ID:", " ">> \o ShownId(TopTab(i)).s
                 \o <<")", " ", "===", "\n">>,
               Spaces(2 * level) \o <<"[EMPTY TAB CONTENT]", "\n">>>>

\* the tab Notes (t1) with empty body content at level 0
C6_Witness ==
  /\ TabsReturned
  /\ level = 0
  /\ tabs = L(<<D([tabProperties |-> D([title |-> S(<<"Notes">>), tabId |-> S(<<"t1">>)]),
                   documentTab |-> D([body |-> D([content |-> EmptyList])])])>>)
  /\ processed_lines =
       <<<<"\n", "===", " ", "TAB", " ", "1", ":", " ", "Notes", " ", "(ID:", " ", "t1", ")", " ",
           "===", "\n">>,
         <<"[EMPTY TAB CONTENT]", "\n">>>>

---------------------------------------------------------------------------
\* C7: every body-content line of a tab rendered at level L is exactly 2*L
\* spaces followed by the line process_structural_elements produced for that
\* content; the tabs reached through childTabs or tabs are rendered at level
\* L + 1.
C7_Content(tab) ==
  IF C5_HasBody(tab) THEN Get(tab.d["documentTab"].d["body"], "content", EmptyList)
  ELSE EmptyList

C7_SubTabsAt(i, key, first) ==
  LET inner == process_tabs_recursively(Related(TopTab(i), key), level + 1, target_tab_id).v IN
  Related(TopTab(i), key) # EmptyList
    => SubSeq(TabSegment(i), first + 1, first + Len(inner)) = inner

C7_Indentation ==
  TabsReturned =>
    \A i \in RenderedTopTabs :
      LET rendered == process_structural_elements(C7_Content(TopTab(i))).v
          body == Len(body_lines(TopTab(i), level).v)
          children == Len(C4_Block(TopTab(i), "childTabs", "", "")) IN
      /\ C7_Content(TopTab(i)) # EmptyList =>
           /\ body = Len(rendered)
           /\ \A j \in 1..Len(rendered) :
                TabSegment(i)[1 + j] = Spaces(2 * level) \o rendered[j]
      /\ C7_SubTabsAt(i, "childTabs", 1 + body + 1)
      /\ C7_SubTabsAt(i, "tabs", 1 + body + children + 1)

\* three content lines at level 2, each behind four spaces
C7_Witness ==
  /\ TabsReturned
  /\ level = 2
  /\ Len(tabs.l) = 1
  /\ C7_Content(TopTab(1)) =
       L(<<Para(<<"a">>), PageBreak,
           Table(<<Row(<<Cell(<<Para(<<"a">>)>>), Cell(<<Para(<<"b">>)>>)>>)>>)>>)
  /\ SubSeq(processed_lines, 2, 6) =
       <<<<" ", " ", " ", " ", "a">>,
         <<" ", " ", " ", " ", "\n", "--- PAGE BREAK ---", "\n">>,
         <<" ", " ", " ", " ", "\n", "--- TABLE ---", "\n">>,
         <<" ", " ", " ", " ", "a", " ", "|", " ", "b", "\n">>,
         <<" ", " ", " ", " ", "--- END TABLE ---", "\n">>>>

---------------------------------------------------------------------------
(* Helpers of the properties that compare two calls *)

ElementsCalled ==
  call = "process_structural_elements" /\ pc # "ready" /\ elements.t = "list"

\* the call ended as the result r does: raised, or returned the same lines
SameOutcome(r) ==
  \/ pc = "raised" /\ r.err
  \/ pc = "returned" /\ ~r.err /\ processed_lines = r.v

---------------------------------------------------------------------------
\* C8: an element carrying more than one recognized key renders exactly as
\* the element restricted to its highest-priority key, in the order
\* paragraph, table, sectionBreak, tableOfContents, pageBreak,
\* horizontalRule, footerContent, headerContent; the other kinds contribute
\* nothing.
C8_Priority ==
  <<"paragraph", "table", "sectionBreak", "tableOfContents", "pageBreak", "horizontalRule",
    "footerContent", "headerContent">>

C8_Recognized(e) == {n \in 1..Len(C8_Priority) : Has(e, C8_Priority[n])}

C8_Restricted(e) ==
  IF e.t = "dict" /\ Cardinality(C8_Recognized(e)) > 1
  THEN LET first == CHOOSE n \in C8_Recognized(e) : \A m \in C8_Recognized(e) : n <= m IN
    D(C8_Priority[first] :> e.d[C8_Priority[first]])
  ELSE e

C8_DispatchPriority ==
  ElementsCalled =>
    SameOutcome(process_structural_elements(
                  L([i \in 1..Len(elements.l) |-> C8_Restricted(elements.l[i])])))

\* a whitespace-only paragraph wins over a table with text: no line at all
C8_Witness ==
  /\ ElementsReturned
  /\ elements = L(<<D([paragraph |-> D([elements |-> L(<<Run(<<" ">>)>>)]),
                       table |-> D([tableRows |-> L(<<Row(<<Cell(<<Para(<<"b">>)>>)>>)>>)])])>>)
  /\ processed_lines = <<>>

---------------------------------------------------------------------------
\* C9: elements of unknown kind are silently ignored: the output for an
\* element list is the output for the list without the elements that carry
\* no recognized key.
C9_Known(e) == e.t # "dict" \/ C8_Recognized(e) # {}

C9_UnknownIgnored ==
  ElementsCalled =>
    SameOutcome(process_structural_elements(
                  L(Pick(elements.l, [i \in 1..Len(elements.l) |-> C9_Known(elements.l[i])]))))

\* an element of unknown kind before a paragraph: only the paragraph's line
C9_Witness ==
  /\ ElementsReturned
  /\ elements = L(<<Unknown, Para(<<"a">>)>>)
  /\ processed_lines = <<<<"a">>>>

---------------------------------------------------------------------------
\* C10: the output is in depth-first pre-order: for every tab its marker
\* precedes its own body lines (or placeholder), which precede every line of
\* its childTabs block, which precedes every line of its tabs block, which
\* precedes the marker of its next sibling; sibling tabs and sibling elements
\* appear in input order.
RECURSIVE C10_PreOrder(_, _, _)
C10_PreOrder(ts, lvl, target) ==
  LET inner(tab, key) == C10_PreOrder(Related(tab, key).l, lvl + 1, target)
      block(tab, key, start, end) ==
        IF Related(tab, key) = EmptyList THEN <<>>
        ELSE <<Spaces(2 * lvl) \o <<start, "\n">>>> \o inner(tab, key)
               \o <<Spaces(2 * lvl) \o <<end, "\n">>>>
      own(tab, n) ==
        IF IsRendered(tab, target)
        THEN <<TAB_MARKER(Spaces(2 * lvl), n, ShownTitle(tab, n), ShownId(tab))>>
               \o body_lines(tab, lvl).v
               \o block(tab, "childTabs", "--- CHILD TABS ---", "--- END CHILD TABS ---")
               \o block(tab, "tabs", "--- NESTED TABS ---", "--- END NESTED TABS ---")
        ELSE inner(tab, "childTabs") \o inner(tab, "tabs")
  IN Concat([n \in 1..Len(ts) |-> own(ts[n], n)])

C10_DepthFirstPreOrder ==
  /\ TabsReturned => processed_lines = C10_PreOrder(tabs.l, level, target_tab_id)
  /\ ElementsReturned =>
       processed_lines =
         Concat([i \in 1..Len(elements.l) |->
                   process_structural_elements(L(<<elements.l[i]>>)).v])

\* a tab with a child tab and a nested tab, then its sibling
C10_Witness ==
  /\ TabsReturned
  /\ level = 0
  /\ target_tab_id = Null
  /\ tabs = L(<<GroupTab, NotesTab>>)
  /\ processed_lines =
       <<TAB_MARKER(<<>>, 1, S(<<"Tab", " ", "1">>), S(<<"unknown">>)),
         <<"[NO DOCUMENT TAB CONTENT]", "\n">>,
         <<"--- CHILD TABS ---", "\n">>,
         TAB_MARKER(<<" ", " ">>, 1, S(<<"Tab", " ", "1">>), S(<<"t2">>)),
         <<" ", " ", "[NO DOCUMENT TAB CONTENT]", "\n">>,
         <<"--- END CHILD TABS ---", "\n">>,
         <<"--- NESTED TABS ---", "\n">>,
         TAB_MARKER(<<" ", " ">>, 1, S(<<"Notes">>), S(<<"t1">>)),
         <<" ", " ", "a">>,
         <<"--- END NESTED TABS ---", "\n">>,
         TAB_MARKER(<<>>, 2, S(<<"Notes">>), S(<<"t1">>)),
         <<"a">>>>

---------------------------------------------------------------------------
\* C11: with a target id, a tab's marker and own body (or placeholder) are
\* emitted if and only if its id equals the target, at any depth reachable
\* through childTabs or tabs: a tab with another id emits nothing of its own
\* but both of its relations are searched. Without the lines that delimit the
\* CHILD TABS and NESTED TABS blocks, the output is the markers and bodies of
\* the tabs that have the target id, in the order of the walk.
C11_BlockLines ==
  {<<"--- CHILD TABS ---", "\n">>, <<"--- END CHILD TABS ---", "\n">>,
   <<"--- NESTED TABS ---", "\n">>, <<"--- END NESTED TABS ---", "\n">>}

RECURSIVE C11_Unindented(_)
C11_Unindented(line) ==
  IF line # <<>> /\ Head(line) = " " THEN C11_Unindented(Tail(line)) ELSE line

C11_OwnLines(lines) ==
  Pick(lines, [j \in 1..Len(lines) |-> C11_Unindented(lines[j]) \notin C11_BlockLines])

RECURSIVE C11_Matching(_, _, _)
C11_Matching(ts, lvl, target) ==
  LET own(tab, n) ==
        IF ShownId(tab) = target
        THEN <<TAB_MARKER(Spaces(2 * lvl), n, ShownTitle(tab, n), ShownId(tab))>>
               \o body_lines(tab, lvl).v
        ELSE <<>>
      below(tab, key) == C11_Matching(Related(tab, key).l, lvl + 1, target)
  IN Concat([n \in 1..Len(ts) |->
               own(ts[n], n) \o below(ts[n], "childTabs") \o below(ts[n], "tabs")])

C11_TargetFiltering ==
  (TabsReturned /\ Truthy(target_tab_id)) =>
    C11_OwnLines(processed_lines) = C11_Matching(tabs.l, level, target_tab_id)

\* the target is the nested tab of a tab with another id: only the nested
\* tab is emitted, at level 1, and the child tab, searched first, is not
C11_Witness ==
  /\ TabsReturned
  /\ target_tab_id = S(<<"t1">>)
  /\ tabs = L(<<GroupTab>>)
  /\ processed_lines =
       <<TAB_MARKER(<<" ", " ">>, 1, S(<<"Notes">>), S(<<"t1">>)), <<" ", " ", "a">>>>

---------------------------------------------------------------------------
\* C15: the marker of a rendered tab shows its stated title, or "Tab k"
\* when no title is stated, and its stated id, or "unknown" when none is
\* stated, where k, also the number after TAB, is the 1-based position of the
\* tab within its own parent's sequence: the numbering restarts at 1 in every
\* childTabs and tabs list.
C15_Title(tab, k) ==
  LET props == Get(tab, "tabProperties", EmptyDict) IN
  IF Has(props, "title") THEN props.d["title"].s ELSE <<"Tab", " ">> \o str(k)

C15_Id(tab) ==
  LET props == Get(tab, "tabProperties", EmptyDict) IN
  IF Has(props, "tabId") THEN props.d["tabId"].s ELSE <<"unknown">>

C15_Marker(lvl, k, tab) ==
  <<"\n">> \o Spaces(2 * lvl) \o <<"===", " ", "TAB", " ">> \o str(k) \o <<":", " ">>
    \o C15_Title(tab, k) \o <<" ", "(ID:", " ">> \o C15_Id(tab) \o <<")", " ", "===", "\n">>

\* the lines the tabs before the k-th one of a relation of the i-th top-level
\* tab appended
RECURSIVE C15_Before(_, _)
C15_Before(subs, k) ==
  IF k <= 1 THEN 0
  ELSE C15_Before(subs, k - 1)
         + Len(tab_lines(subs[k - 1], k - 2, level + 1, target_tab_id).v)

\* the markers of the rendered tabs of a relation whose block starts after
\* `first` lines of the segment of the i-th top-level tab
C15_SubMarkers(i, key, first) ==
  LET subs == Related(TopTab(i), key).l IN
  \A k \in 1..Len(subs) :
    IsRendered(subs[k], target_tab_id)
      => TabSegment(i)[first + C15_Before(subs, k) + 1] = C15_Marker(level + 1, k, subs[k])

C15_TabMarker ==
  TabsReturned =>
    \A i \in RenderedTopTabs :
      LET body == Len(body_lines(TopTab(i), level).v)
          children == Len(child_tabs_lines(TopTab(i), level, target_tab_id).v) IN
      /\ TabSegment(i)[1] = C15_Marker(level, i, TopTab(i))
      /\ C15_SubMarkers(i, "childTabs", 1 + body + 1)
      /\ C15_SubMarkers(i, "tabs", 1 + body + children + 1)

\* an untitled tab without id at position 2, whose child and nested tabs are
\* each numbered 1 in their own list
C15_Witness ==
  /\ TabsReturned
  /\ level = 0
  /\ target_tab_id = Null
  /\ tabs = L(<<NotesTab, GroupTab>>)
  /\ processed_lines =
       <<<<"\n", "===", " ", "TAB", " ", "1", ":", " ", "Notes", " ", "(ID:", " ", "t1", ")",
           " ", "===", "\n">>,
         <<"a">>,
         <<"\n", "===", " ", "TAB", " ", "2", ":", " ", "Tab", " ", "2", " ", "(ID:", " ",
           "unknown", ")", " ", "===", "\n">>,
         <<"[NO DOCUMENT TAB CONTENT]", "\n">>,
         <<"--- CHILD TABS ---", "\n">>,
         <<"\n", " ", " ", "===", " ", "TAB", " ", "1", ":", " ", "Tab", " ", "1", " ", "(ID:",
           " ", "t2", ")", " ", "===", "\n">>,
         <<" ", " ", "[NO DOCUMENT TAB CONTENT]", "\n">>,
         <<"--- END CHILD TABS ---", "\n">>,
         <<"--- NESTED TABS ---", "\n">>,
         <<"\n", " ", " ", "===", " ", "TAB", " ", "1", ":", " ", "Notes", " ", "(ID:", " ",
           "t1", ")", " ", "===", "\n">>,
         <<" ", " ", "a">>,
         <<"--- END NESTED TABS ---", "\n">>>>

---------------------------------------------------------------------------
\* C16: a footerContent element renders as the FOOTER marker, then exactly
\* the lines of its recursively rendered nested content, in order, then the
\* END FOOTER marker, and a headerContent element likewise with the HEADER
\* markers; the two markers are emitted also when the nested content is
\* empty or missing.
C16_IsBracket(e, key) ==
  /\ Has(e, key)
  /\ \A n \in C8_Recognized(e) : C8_Priority[n] \in {"footerContent", "headerContent"}
  /\ key = "headerContent" => ~Has(e, "footerContent")

C16_Nested(e, key) ==
  process_structural_elements(Get(e.d[key], "content", EmptyList)).v

C16_Element(e) ==
  IF C16_IsBracket(e, "footerContent")
  THEN <<<<"\n", "--- FOOTER ---", "\n">>>> \o C16_Nested(e, "footerContent")
         \o <<<<"--- END FOOTER ---", "\n">>>>
  ELSE IF C16_IsBracket(e, "headerContent")
  THEN <<<<"\n", "--- HEADER ---", "\n">>>> \o C16_Nested(e, "headerContent")
         \o <<<<"--- END HEADER ---", "\n">>>>
  ELSE element_lines(e).v

C16_FooterHeader ==
  ElementsReturned =>
    processed_lines = Concat([i \in 1..Len(elements.l) |-> C16_Element(elements.l[i])])

\* a footer without content: the two markers and nothing between them
C16_Witness ==
  /\ ElementsReturned
  /\ elements = L(<<D([footerContent |-> EmptyDict])>>)
  /\ processed_lines = <<<<"\n", "--- FOOTER ---", "\n">>, <<"--- END FOOTER ---", "\n">>>>

---------------------------------------------------------------------------
\* C17: an element whose highest-priority key is sectionBreak,
\* tableOfContents, pageBreak or horizontalRule renders to exactly one entry,
\* the fixed marker of that kind, whatever the value under the key.
C17_Markers ==
  [sectionBreak |-> <<"\n", "--- SECTION BREAK ---", "\n">>,
   tableOfContents |-> <<"\n", "--- TABLE OF CONTENTS ---", "\n">>,
   pageBreak |-> <<"\n", "--- PAGE BREAK ---", "\n">>,
   horizontalRule |-> <<"\n", "--- HORIZONTAL RULE ---", "\n">>]

\* the kind of the element, when it is one of the four
C17_Kind(e) ==
  IF e.t = "dict" /\ ~Has(e, "paragraph") /\ ~Has(e, "table")
  THEN IF Has(e, "sectionBreak") THEN "sectionBreak"
       ELSE IF Has(e, "tableOfContents") THEN "tableOfContents"
       ELSE IF Has(e, "pageBreak") THEN "pageBreak"
       ELSE IF Has(e, "horizontalRule") THEN "horizontalRule"
       ELSE "other"
  ELSE "other"

C17_FixedMarkers ==
  ElementsReturned =>
    processed_lines =
      Concat([i \in 1..Len(elements.l) |->
                IF C17_Kind(elements.l[i]) # "other"
                THEN <<C17_Markers[C17_Kind(elements.l[i])]>>
                ELSE element_lines(elements.l[i]).v])

\* a page break whose value is None and a horizontal rule with a payload
C17_Witness ==
  /\ ElementsReturned
  /\ elements = L(<<D([pageBreak |-> Null]),
                    D([horizontalRule |-> D([textStyle |-> EmptyDict])])>>)
  /\ processed_lines = <<<<"\n", "--- PAGE BREAK ---", "\n">>,
                         <<"\n", "--- HORIZONTAL RULE ---", "\n">>>>

---------------------------------------------------------------------------
\* C18: process_tabs_recursively on an empty tab list, at any level and with
\* or without a target id, and process_structural_elements on an empty
\* element list each return the empty sequence of lines.
C18_EmptyInput ==
  /\ (call = "process_tabs_recursively" /\ tabs = EmptyList /\ pc # "ready")
       => (pc = "returned" /\ processed_lines = <<>>)
  /\ (call = "process_structural_elements" /\ elements = EmptyList /\ pc # "ready")
       => (pc = "returned" /\ processed_lines = <<>>)

\* the empty tab list searched for a target id
C18_Witness ==
  /\ TabsReturned
  /\ tabs = EmptyList
  /\ target_tab_id = S(<<"t1">>)
  /\ processed_lines = <<>>

---------------------------------------------------------------------------
\* C19: for every finite input tree both functions terminate, and a call
\* that returns has visited each node (tab, structural element, table row,
\* table cell) once per path by which the walk reaches it: a tab held by both
\* childTabs and tabs of its parent is visited twice.
RECURSIVE C19_Sum(_)
C19_Sum(ns) == IF ns = <<>> THEN 0 ELSE Head(ns) + C19_Sum(Tail(ns))

RECURSIVE C19_ElementNodes(_)
C19_ElementNodes(els) ==
  LET cell(c) == 1 + C19_ElementNodes(Get(c, "content", EmptyList).l)
      row(r) == LET cs == Get(r, "tableCells", EmptyList).l IN
                1 + C19_Sum([j \in 1..Len(cs) |-> cell(cs[j])])
      below(e) ==
        IF Has(e, "paragraph") THEN 0
        ELSE IF Has(e, "table")
        THEN LET rs == Get(e.d["table"], "tableRows", EmptyList).l IN
             C19_Sum([j \in 1..Len(rs) |-> row(rs[j])])
        ELSE IF C16_IsBracket(e, "footerContent")
        THEN C19_ElementNodes(Get(e.d["footerContent"], "content", EmptyList).l)
        ELSE IF C16_IsBracket(e, "headerContent")
        THEN C19_ElementNodes(Get(e.d["headerContent"], "content", EmptyList).l)
        ELSE 0
  IN C19_Sum([i \in 1..Len(els) |-> 1 + below(els[i])])

RECURSIVE C19_TabNodes(_, _)
C19_TabNodes(ts, target) ==
  LET below(tab) ==
        (IF IsRendered(tab, target) THEN C19_ElementNodes(C7_Content(tab).l) ELSE 0)
          + C19_TabNodes(Related(tab, "childTabs").l, target)
          + C19_TabNodes(Related(tab, "tabs").l, target)
  IN C19_Sum([i \in 1..Len(ts) |-> 1 + below(ts[i])])

C19_Paths ==
  IF call = "process_tabs_recursively" THEN C19_TabNodes(tabs.l, target_tab_id)
  ELSE C19_ElementNodes(elements.l)

C19_Terminates ==
  /\ <>(pc \in {"returned", "raised"})
  /\ [](pc = "returned" => (stack = <<>> /\ visited = C19_Paths))

\* a tab that is both the child tab and the nested tab of its parent: the
\* parent once, the tab and its paragraph twice
C19_Witness ==
  /\ call = "process_tabs_recursively"
  /\ pc = "returned"
  /\ tabs = L(<<D([tabProperties |-> D([title |-> S(<<"Top">>), tabId |-> S(<<"t0">>)]),
                   childTabs |-> L(<<NotesTab>>), tabs |-> L(<<NotesTab>>)])>>)
  /\ target_tab_id = Null
  /\ visited = 5

\* the frame-by-frame walk ends as the call does
WalkAgrees ==
  pc \in {"returned", "raised"} =>
    (pc = "raised") =
      IF call = "process_tabs_recursively"
      THEN process_tabs_recursively(tabs, level, target_tab_id).err
      ELSE process_structural_elements(elements).err

---------------------------------------------------------------------------
(* Helpers of the properties of get_doc_content *)

DocReturned == call = "get_doc_content" /\ pc = "returned"

\* the file is a native Google Doc
IsGoogleDoc ==
  /\ file_metadata.t = "dict"
  /\ Has(file_metadata, "mimeType")
  /\ file_metadata.d["mimeType"] = S(<<"application/vnd.google-apps.document">>)

\* the text has a line that reads `line`
HasLine(text, line) == \E i \in 1..Len(text) : text[i] = line

\* the tabs of the document that was read
DocTabs == Get(doc_data, "tabs", EmptyList)

---------------------------------------------------------------------------
\* C12 as stated: on a successful read of a native Google Doc the text
\* returned is the metadata header (file name, id, MIME type, web link)
\* followed by the renderer's lines joined with a newline between them.
C12_Lines ==
  IF Truthy(DocTabs) THEN process_tabs_recursively(DocTabs, 0, target_tab_id).v
  ELSE process_structural_elements(Get(Get(doc_data, "body", EmptyDict), "content", EmptyList)).v

C12_Success ==
  /\ DocReturned
  /\ IsGoogleDoc
  /\ Truthy(target_tab_id) => (Truthy(DocTabs) /\ C12_Lines # <<>>)

C12_Header ==
  <<"File:", " ", "\"">> \o Get(file_metadata, "name", S(<<"Unknown File">>)).s
    \o <<"\"", " ", "(ID:", " ", "doc1", ",", " ", "Type:", " ">>
    \o file_metadata.d["mimeType"].s
    \o <<")", "\n", "Link:", " ">> \o Get(file_metadata, "webViewLink", S(<<"#">>)).s
    \o <<"\n", "\n", "--- CONTENT ---", "\n">>

C12_Original == C12_Success => result = C12_Header \o join(<<"\n">>, C12_Lines)

\* C12 as amended: the text returned is the metadata header followed by the
\* renderer's lines concatenated with nothing between them; every line
\* carries its own newlines.
C12_HeaderThenLines == C12_Success => result = C12_Header \o Concat(C12_Lines)

\* a document without tabs whose body is the paragraphs "a\n" and "b\n"
C12_Witness ==
  /\ DocReturned
  /\ target_tab_id = Null
  /\ file_metadata = D([mimeType |-> S(<<"application/vnd.google-apps.document">>),
                        name |-> S(<<"Plan">>), webViewLink |-> S(<<"https://docs/doc1">>)])
  /\ doc_data = D([tabs |-> EmptyList,
                   body |-> D([content |-> L(<<Para(<<"a", "\n">>), Para(<<"b", "\n">>)>>)])])
  /\ result = <<"File:", " ", "\"", "Plan", "\"", " ", "(ID:", " ", "doc1", ",", " ", "Type:",
                " ", "application/vnd.google-apps.document", ")", "\n", "Link:", " ",
                "https://docs/doc1", "\n", "\n", "--- CONTENT ---", "\n",
                "a", "\n", "b", "\n">>

---------------------------------------------------------------------------
\* C13: when a tab_id is given and cannot be honoured (the document has tabs
\* but none, at any depth through childTabs or tabs, has that id; or the
\* document has no tabs; or the file is no native Google Doc) the text
\* returned has the line "--- ERROR ---" and no line "--- CONTENT ---", and
\* for a file that is no Google Doc it is returned with no download started;
\* when some tab has that id the text returned has the line "--- CONTENT ---".
RECURSIVE C13_HasTab(_, _)
C13_HasTab(ts, id) ==
  \E n \in 1..Len(ts) :
    \/ ShownId(ts[n]) = id
    \/ C13_HasTab(Related(ts[n], "childTabs").l, id)
    \/ C13_HasTab(Related(ts[n], "tabs").l, id)

C13_Honoured == IsGoogleDoc /\ C13_HasTab(DocTabs.l, target_tab_id)

C13_TabIdErrors ==
  /\ (DocReturned /\ Truthy(target_tab_id)) =>
       /\ C13_Honoured =>
            (HasLine(result, "--- CONTENT ---") /\ ~HasLine(result, "--- ERROR ---"))
       /\ ~C13_Honoured =>
            (HasLine(result, "--- ERROR ---") /\ ~HasLine(result, "--- CONTENT ---"))
       /\ ~IsGoogleDoc => requests = <<"files.get">>
  /\ (call = "get_doc_content" /\ Truthy(target_tab_id)) => pc # "get_media"

\* no tab of the document, at any depth, has the id t9
C13_Witness ==
  /\ DocReturned
  /\ target_tab_id = S(<<"t9">>)
  /\ file_metadata = D([mimeType |-> S(<<"application/vnd.google-apps.document">>)])
  /\ doc_data = D([tabs |-> L(<<GroupTab, NotesTab>>)])
  /\ result = <<"File:", " ", "\"", "Unknown File", "\"", " ", "(ID:", " ", "doc1", ",", " ",
                "Type:", " ", "application/vnd.google-apps.document", ")", "\n", "Link:", " ",
                "#", "\n", "\n", "--- ERROR ---", "\n",
                "No tab found with tab_id \"", "t9", "\".">>

---------------------------------------------------------------------------
\* C20: the text get_spreadsheet_info returns always starts with the
\* spreadsheet title and ID, followed by the sheets list: the count and one
\* line per sheet, or "No sheets found" for a spreadsheet with no sheets.
SheetsReturned == call = "get_spreadsheet_info" /\ pc = "returned"

C20_TitleAndId ==
  <<"Spreadsheet:", " ", "\"">>
    \o format(Get(Get(spreadsheet, "properties", EmptyDict), "title", S(<<"Unknown">>)))
    \o <<"\"", " ", "(ID:", " ", "sheet1", ")", "\n">>

C20_TitleIdThenSheets ==
  SheetsReturned =>
    /\ Len(result) > Len(C20_TitleAndId)
    /\ SubSeq(result, 1, Len(C20_TitleAndId)) = C20_TitleAndId
    /\ Get(spreadsheet, "sheets", EmptyList) = EmptyList => HasLine(result, "No sheets found")

\* a spreadsheet with a title and no sheets: the text is only the placeholder
C20_NoSheets ==
  /\ SheetsReturned
  /\ spreadsheet = D([properties |-> D([title |-> S(<<"Budget">>)]), sheets |-> EmptyList])
  /\ result = <<" ", " ", "No sheets found">>

\* with sheets, the text is the title and ID, the count, and a line per sheet
C20_WithSheets ==
  (SheetsReturned /\ Get(spreadsheet, "sheets", EmptyList) # EmptyList) =>
    LET sheets == spreadsheet.d["sheets"].l IN
    result = C20_TitleAndId \o <<"Sheets", " ", "(">> \o str(Len(sheets)) \o <<"):", "\n">>
               \o join(<<"\n">>, [i \in 1..Len(sheets) |-> sheet_info(sheets[i]).v])

---------------------------------------------------------------------------
(* Helpers of the properties of get_gmail_messages_content_batch *)

\* the positions of message_ids whose chunk was processed
ProcessedPositions ==
  IF pc \in {"loop", "returned"} THEN 1..Min(chunk_start, Len(message_ids)) ELSE {}

\* the chunk, by its start, of a position
StartOf(p) == ((p - 1) \div BATCH_LIMIT) * BATCH_LIMIT

\* the places in requests of the single fetches of the chunk at start
GetPlaces(start) ==
  {i \in 1..Len(requests) : requests[i].api = "messages.get" /\ requests[i].start = start}

\* the ids of the chunk at start were fetched one by one
IsFallback(start) == GetPlaces(start) # {}

\* the fetch for position p raised
FetchFailed(p) == answers[p].error # Null

\* the fetch for position p returned a message
FetchFound(p) == answers[p].error = Null /\ Truthy(answers[p].data)

HasError(mid, text) ==
  \E k \in 1..Len(errors) : errors[k] = [message_id |-> mid, error |-> text]

HasMessage(mid) ==
  \E k \in 1..Len(retrieved_messages) : retrieved_messages[k].message_id = mid

\* C21: when building or executing the batch of a chunk raises, every id of
\* the chunk is fetched on its own; a fetch that fails is recorded as an
\* error entry for its id, the call is not aborted, and the ids whose fetch
\* did not fail, in this chunk and in the later ones, are retrieved.
C21_FetchedOneByOne(start) ==
  LET places == GetPlaces(start)
      first == CHOOSE i \in places : \A j \in places : i <= j
      ids == chunk_ids_of(message_ids, start)
  IN /\ Cardinality(places) = Len(ids)
     /\ \A i \in places :
          i - first + 1 \in 1..Len(ids) /\ requests[i].id = ids[i - first + 1]

C21_FailureRecorded(p) ==
  FetchFailed(p) => HasError(message_ids[p], error_text(answers[p].error))

C21_OthersRetrieved(p) ==
  (/\ FetchFound(p)
   /\ \A q \in ProcessedPositions :
        StartOf(q) = StartOf(p) /\ FetchFailed(q) => message_ids[q] # message_ids[p])
    => HasMessage(message_ids[p])

C21_FallbackRecordsFailures ==
  /\ message_ids # <<>> => pc # "raised"
  /\ \A p \in ProcessedPositions :
       IsFallback(StartOf(p)) =>
         /\ C21_FetchedOneByOne(StartOf(p))
         /\ C21_FailureRecorded(p)
         /\ C21_OthersRetrieved(p)

\* a fallback chunk asked twice for the same id: the first fetch failed, the
\* second did not, and the call returned
C21_LostFailure ==
  /\ pc = "returned"
  /\ \E p, q \in ProcessedPositions :
       /\ p < q /\ StartOf(p) = StartOf(q) /\ IsFallback(StartOf(p))
       /\ message_ids[p] = message_ids[q]
       /\ FetchFailed(p) /\ FetchFound(q)
       /\ ~HasError(message_ids[p], error_text(answers[p].error))

\* with one fetch per id in a fallback chunk, the failures are recorded
C21_DistinctIds ==
  \A p \in ProcessedPositions :
    (/\ IsFallback(StartOf(p))
     /\ \A q \in ProcessedPositions :
          StartOf(q) = StartOf(p) /\ q # p => message_ids[q] # message_ids[p])
      => C21_FailureRecorded(p) /\ C21_OthersRetrieved(p)

---------------------------------------------------------------------------
\* C22: get_gmail_messages_content_batch fails, ending in an error instead
\* of returning a response, when the request for some message id fails
\* because the id is invalid or the message is not accessible to the user.
C22_FailsOnInvalidId ==
  (\E p \in 1..Len(message_ids) : FetchFailed(p)) => pc # "returned"

\* the only id asked for is not found: the call returns a response with no
\* message and one error entry
C22_ReturnedWithErrors ==
  /\ pc = "returned"
  /\ message_ids = <<S(<<"a">>)>>
  /\ answers = <<NotFound>>
  /\ result = [total_requested |-> 1, total_retrieved |-> 0, messages |-> <<>>,
               errors |-> <<[message_id |-> S(<<"a">>),
                             error |-> S(<<"HttpError", " ", "404">>)]>>]

---------------------------------------------------------------------------
\* C23: every batch request holds at most 100 message ids; the chunks, taken
\* in order, partition message_ids: each position of the list is requested
\* in exactly one chunk, at its place in the chunk; an empty message_ids
\* raises before any request is issued.
C23_Starts == {requests[i].start : i \in 1..Len(requests)}

C23_Batches(start) ==
  {i \in 1..Len(requests) : requests[i].api = "batch" /\ requests[i].start = start}

\* the number of ids requested in the chunk at start
C23_Size(start) ==
  IF C23_Batches(start) # {}
  THEN Len(requests[CHOOSE i \in C23_Batches(start) : TRUE].ids)
  ELSE Cardinality(GetPlaces(start))

C23_Positions(start) == (start + 1)..(start + C23_Size(start))

\* the requests of the chunk at start ask for the ids at its positions
C23_Chunk(start) ==
  LET places == GetPlaces(start)
      first == CHOOSE i \in places : \A j \in places : i <= j
  IN /\ Cardinality(C23_Batches(start)) <= 1
     /\ \A i \in C23_Batches(start) :
          /\ Len(requests[i].ids) \in 1..100
          /\ \A k \in 1..Len(requests[i].ids) :
               start + k <= Len(message_ids) /\ requests[i].ids[k] = message_ids[start + k]
     /\ places # {} => Cardinality(places) = C23_Size(start)
     /\ \A i \in places :
          /\ start + (i - first + 1) <= Len(message_ids)
          /\ requests[i].id = message_ids[start + (i - first + 1)]

C23_ChunksPartition ==
  /\ \A start \in C23_Starts : C23_Chunk(start)
  /\ \A s, t \in C23_Starts : s # t => C23_Positions(s) \cap C23_Positions(t) = {}
  /\ \A i \in 1..(Len(requests) - 1) : requests[i].start <= requests[i + 1].start
  /\ pc = "returned" => UNION {C23_Positions(start) : start \in C23_Starts} = 1..Len(message_ids)
  /\ message_ids = <<>> => requests = <<>> /\ pc \in {"ready", "raised"}

\* a list of 101 ids was asked for in two batches, of 100 ids and of one
C23_Witness ==
  /\ pc = "returned"
  /\ Len(message_ids) = BATCH_LIMIT + 1
  /\ Len(requests) = 2
  /\ Len(requests[1].ids) = BATCH_LIMIT /\ requests[1].start = 0
  /\ requests[2].ids = <<message_ids[BATCH_LIMIT + 1]>>

\* no id: the call raised and nothing was requested
C23_EmptyRaises == message_ids = <<>> /\ pc = "raised" /\ requests = <<>>

---------------------------------------------------------------------------
\* C27: the response of get_gmail_messages_content_batch accounts for every
\* requested position: total_requested is len(message_ids), total_retrieved
\* plus the number of errors is total_requested, every position yields one
\* entry, a message or an error, and messages and errors keep request order.
\* The entry of a position is decided by the answer stored last for its id
\* in its chunk.
C27_Positions == [p \in 1..Len(message_ids) |-> p]

\* the last position of the chunk of p that asks for the id of p
C27_Deciding(p) ==
  LET same == {q \in (StartOf(p) + 1)..Min(StartOf(p) + 100, Len(message_ids)) :
                 message_ids[q] = message_ids[p]}
  IN CHOOSE q \in same : \A r \in same : r <= q

C27_IsMessage(p) == FetchFound(C27_Deciding(p))
C27_IsError(p) == ~FetchFound(C27_Deciding(p))

\* the ids at the positions that yield a message, and an error, in order
C27_MessageIds ==
  LET ps == SelectSeq(C27_Positions, C27_IsMessage) IN [k \in 1..Len(ps) |-> message_ids[ps[k]]]
C27_ErrorIds ==
  LET ps == SelectSeq(C27_Positions, C27_IsError) IN [k \in 1..Len(ps) |-> message_ids[ps[k]]]

C27_Accounting ==
  (call = "get_gmail_messages_content_batch" /\ pc = "returned") =>
    /\ result.total_requested = Len(message_ids)
    /\ result.total_retrieved = Len(result.messages)
    /\ result.total_retrieved + Len(result.errors) = result.total_requested
    /\ [k \in 1..Len(result.messages) |-> result.messages[k].message_id] = C27_MessageIds
    /\ [k \in 1..Len(result.errors) |-> result.errors[k].message_id] = C27_ErrorIds

\* 101 ids in two chunks, the first through the fallback and the second in a
\* batch, with one failure in each chunk
C27_Witness ==
  /\ call = "get_gmail_messages_content_batch" /\ pc = "returned"
  /\ Len(message_ids) = BATCH_LIMIT + 1
  /\ IsFallback(0) /\ ~IsFallback(BATCH_LIMIT)
  /\ result.total_requested = BATCH_LIMIT + 1
  /\ result.total_retrieved = 0
  /\ Len(result.errors) = BATCH_LIMIT + 1

\* two ids in one chunk, a message and an error entry in the response
C27_WitnessMixed ==
  /\ call = "get_gmail_messages_content_batch" /\ pc = "returned"
  /\ message_ids = <<S(<<"a">>), S(<<"b">>)>>
  /\ answers = <<NoData, Found(FullMessage)>>
  /\ Len(result.messages) = 1 /\ Len(result.errors) = 1

---------------------------------------------------------------------------
\* C24: modify_sheet_values raises and issues no API call when clear_values
\* is false and values is missing or empty; otherwise it issues exactly one
\* API call: a clear of the range when clear_values is true, whatever the
\* values, and an update with the values otherwise.
C24_Finished == call = "modify_sheet_values" /\ pc \in {"returned", "raised"}

C24_NoValues == values = Null \/ values = EmptyList

C24_ClearOrUpdate ==
  /\ Len(requests) <= 1
  /\ (~clear_values /\ C24_NoValues) => requests = <<>> /\ pc # "returned"
  /\ (C24_Finished /\ clear_values) =>
       requests = <<[api |-> "values.clear", range |-> range_name]>>
  /\ (C24_Finished /\ ~clear_values /\ ~C24_NoValues) =>
       requests = <<[api |-> "values.update", range |-> range_name,
                     valueInputOption |-> value_input_option,
                     body |-> D([values |-> values])]>>

\* values were given with clear_values: the range was cleared and nothing
\* was written
C24_Witness ==
  /\ call = "modify_sheet_values" /\ pc = "returned"
  /\ clear_values
  /\ values = L(<<L(<<S(<<"a">>)>>)>>)
  /\ requests = <<[api |-> "values.clear", range |-> <<"A1:B2">>]>>
  /\ result = <<"Successfully", " ", "cleared", " ", "range", " ", "'", "A1:B2", "'", " ",
                "in", " ", "spreadsheet", " ", "sheet1", " ", "for", " ", "None", ".">>

\* no values and no clear_values: the call raised without a request
C24_Rejected ==
  /\ call = "modify_sheet_values" /\ pc = "raised"
  /\ ~clear_values /\ values = EmptyList /\ requests = <<>>

---------------------------------------------------------------------------
\* C25: manage_gmail_label checks its arguments before any request: create
\* without a name, and update or delete without a label_id, end in an error
\* with no request issued; delete issues labels.delete only after labels.get
\* for the same label has answered.
C25_Missing(arg) == arg = Null \/ arg = S(<<>>)

C25_Invalid ==
  \/ action = "create" /\ C25_Missing(name)
  \/ action \in {"update", "delete"} /\ C25_Missing(label_id)

C25_ValidatesFirst ==
  /\ C25_Invalid => requests = <<>> /\ pc \in {"ready", "raised"}
  /\ \A i \in 1..Len(requests) :
       requests[i].api = "labels.delete" =>
         /\ action = "delete"
         /\ i = 2
         /\ requests[1] = [api |-> "labels.get", id |-> label_id]
         /\ current_label \in Labels
  /\ (action = "delete" /\ pc = "returned") =>
       requests = <<[api |-> "labels.get", id |-> label_id],
                    [api |-> "labels.delete", id |-> label_id]>>

\* a delete that went through: the label was fetched, then deleted
C25_Witness ==
  /\ call = "manage_gmail_label" /\ pc = "returned"
  /\ action = "delete" /\ label_id = S(<<"Label_1">>)
  /\ current_label = D([id |-> S(<<"Label_1">>), name |-> S(<<"Work">>)])
  /\ requests = <<[api |-> "labels.get", id |-> label_id],
                  [api |-> "labels.delete", id |-> label_id]>>
  /\ result.message = <<"Label", " ", "'", "Work", "'", " ", "deleted", " ", "successfully">>

\* a delete without label_id raised with no request issued
C25_Rejected ==
  /\ call = "manage_gmail_label" /\ pc = "raised"
  /\ action = "delete" /\ label_id = Null /\ requests = <<>>

---------------------------------------------------------------------------
\* C26: credentials come from the environment only when
\* GOOGLE_OAUTH_CLIENT_ID, GOOGLE_OAUTH_CLIENT_SECRET and
\* GOOGLE_OAUTH_REFRESH_TOKEN are all set: load_credentials_from_env returns
\* None when one of them is missing and credentials with their values when
\* all are set; a complete set is not valid when GOOGLE_OAUTH_TOKEN_URI is
\* not an HTTPS URI or GOOGLE_OAUTH_SCOPES has an empty entry.
C26_IsSet(var) == var \in DOMAIN environ /\ environ[var] # S(<<>>)

C26_Complete ==
  C26_IsSet("GOOGLE_OAUTH_CLIENT_ID") /\ C26_IsSet("GOOGLE_OAUTH_CLIENT_SECRET")
    /\ C26_IsSet("GOOGLE_OAUTH_REFRESH_TOKEN")

\* the entries of GOOGLE_OAUTH_SCOPES between its commas, where it is set
C26_EmptyScope ==
  /\ C26_IsSet("GOOGLE_OAUTH_SCOPES")
  /\ LET s == environ["GOOGLE_OAUTH_SCOPES"].s
         commas == {0, Len(s) + 1} \cup {i \in 1..Len(s) : s[i] = ","}
     IN \E i, j \in commas :
          /\ i < j
          /\ \A k \in (i + 1)..(j - 1) : s[k] = " "

C26_NotHttps ==
  C26_IsSet("GOOGLE_OAUTH_TOKEN_URI") /\ environ["GOOGLE_OAUTH_TOKEN_URI"].s[1] # "https://"

C26_EnvCredentials ==
  /\ (call = "load_credentials_from_env" /\ pc = "returned") =>
       IF C26_Complete
       THEN /\ result # Null
            /\ result.client_id = environ["GOOGLE_OAUTH_CLIENT_ID"]
            /\ result.client_secret = environ["GOOGLE_OAUTH_CLIENT_SECRET"]
            /\ result.refresh_token = environ["GOOGLE_OAUTH_REFRESH_TOKEN"]
       ELSE result = Null
  /\ (call = "validate_environment_credentials" /\ pc = "returned" /\ C26_Complete) =>
       (C26_NotHttps \/ C26_EmptyScope => result = FALSE)

\* the three required variables and an http token URI: credentials are
\* loaded elsewhere, and the validation fails
C26_Witness ==
  /\ call = "validate_environment_credentials" /\ pc = "returned"
  /\ C26_Complete
  /\ "GOOGLE_OAUTH_SCOPES" \notin DOMAIN environ
  /\ C26_NotHttps
  /\ result = FALSE

\* only the client id is set: no credentials
C26_Incomplete ==
  /\ call = "load_credentials_from_env" /\ pc = "returned"
  /\ DOMAIN environ = {"GOOGLE_OAUTH_CLIENT_ID"}
  /\ result = Null

\* a complete set with two scopes and no token URI is valid
C26_Valid ==
  /\ call = "validate_environment_credentials" /\ pc = "returned"
  /\ C26_Complete
  /\ "GOOGLE_OAUTH_TOKEN_URI" \notin DOMAIN environ
  /\ C26_IsSet("GOOGLE_OAUTH_SCOPES")
  /\ environ["GOOGLE_OAUTH_SCOPES"] = S(<<"gmail.readonly", ",", "calendar">>)
  /\ result = TRUE

---------------------------------------------------------------------------
\* C28: _extract_message_body ends for every payload, and returns the
\* decoded data of the first part, breadth first over the parts of the
\* payload (the payload itself when it has none; only multipart/* parts are
\* descended into), that is text/plain with non-empty body data; when there
\* is no such part, or its data decodes to nothing, it returns the decoded
\* data of the payload itself where that is text/plain with non-empty body
\* data, and the empty string otherwise.
C28_Qualifies(part) ==
  /\ "mimeType" \in DOMAIN part.d
  /\ part.d["mimeType"] = S(<<"text/plain">>)
  /\ "body" \in DOMAIN part.d
  /\ "data" \in DOMAIN part.d["body"].d
  /\ part.d["body"].d["data"].s # <<>>

C28_Descends(part) ==
  /\ "mimeType" \in DOMAIN part.d
  /\ part.d["mimeType"].s # <<>>
  /\ part.d["mimeType"].s[1] = "multipart/"
  /\ "parts" \in DOMAIN part.d

\* the parts one level below a list of parts
RECURSIVE C28_SubParts(_)
C28_SubParts(parts) ==
  IF parts = <<>> THEN <<>>
  ELSE (IF C28_Descends(Head(parts)) THEN Head(parts).d["parts"].l ELSE <<>>)
         \o C28_SubParts(Tail(parts))

\* the parts level after level
RECURSIVE C28_Levels(_)
C28_Levels(parts) ==
  IF parts = <<>> THEN <<>> ELSE parts \o C28_Levels(C28_SubParts(parts))

C28_Order ==
  C28_Levels(IF "parts" \in DOMAIN payload.d /\ payload.d["parts"].l # <<>>
             THEN payload.d["parts"].l ELSE <<payload>>)

C28_Found == {i \in 1..Len(C28_Order) : C28_Qualifies(C28_Order[i])}

C28_First == C28_Order[CHOOSE i \in C28_Found : \A j \in C28_Found : i <= j]

C28_FirstBody ==
  IF C28_Found = {} THEN <<>> ELSE decode(C28_First.d["body"].d["data"].s)

\* C28 as stated: the data of the first such part, or the empty string
C28_ReturnsFirstPlainText ==
  (call = "_extract_message_body" /\ pc = "returned") => result = S(C28_FirstBody)

C28_BodyOrMainPayload ==
  /\ <>(pc = "returned")
  /\ [](pc = "returned" =>
          result = S(IF C28_FirstBody # <<>> THEN C28_FirstBody
                     ELSE IF C28_Qualifies(payload)
                          THEN decode(payload.d["body"].d["data"].s)
                          ELSE <<>>))

\* a text/plain payload with data whose only part is HTML: its own data comes
C28_Witness ==
  /\ call = "_extract_message_body" /\ pc = "returned"
  /\ "parts" \in DOMAIN payload.d
  /\ Len(payload.d["parts"].l) = 1
  /\ C28_Found = {}
  /\ C28_Qualifies(payload)
  /\ result = S(<<"Hey">>)

\* a plain text part after a multipart with a plain text part is the first
C28_BreadthFirst ==
  /\ call = "_extract_message_body" /\ pc = "returned"
  /\ "parts" \in DOMAIN payload.d
  /\ Len(payload.d["parts"].l) = 2
  /\ C28_Descends(payload.d["parts"].l[1])
  /\ C28_Found = {2, 3}
  /\ result = S(<<"Bye">>)

=============================================================================
